---- MODULE Spec2Model ----
(***************************************************************************)
(* Model of gridsync's Tahoe gateway (src/gridsync/tahoe.py).              *)
(*                                                                         *)
(* Twisted runs every inlineCallbacks generator on one thread: the code    *)
(* between two waits on an unfired Deferred is one atomic step.  Each      *)
(* action below is such a step: a call up to its first real wait, or the   *)
(* completion of an HTTP request or a spawned process together with all    *)
(* the code that completion resumes.                                       *)
(*                                                                         *)
(* LinkSpec : link / unlink on one Gateway.                                *)
(* RootSpec : mkdir / create_rootcap / get_rootcap on one Gateway.         *)
(* Spec     : start() / stop() of a Gateway and of its subclients.         *)
(* RunSpec  : one spawned process seen by both launchers of command().     *)
(***************************************************************************)
EXTENDS Integers, Sequences, FiniteSets, TLC

\* ----------------------------------------------------------------- bounds
NLinkCalls == 3      \* link/unlink calls issued on the Gateway
NRootCalls == 3      \* create_rootcap calls issued on the Gateway

NTop == 1            \* start()/stop() calls made on the parent Gateway
FirstPid == 8        \* process ids the operating system hands out: FirstPid..MaxPid
MaxPid == 13

LinkCalls == 1..NLinkCalls
RootCalls == 1..NRootCalls

\* A capability is identified by the number of the mkdir request that made
\* it; 0 stands for Python's None / no file.
NoCap == 0

\* The parent Gateway's node directory is "P"; each folder name is also the
\* name of the nested node directory magic-folders/<name> of its subclient.
Folders == {"f1", "f2"}
Nodes == {"P"} \cup Folders
Tops == 1..NTop
Pids == FirstPid..MaxPid

\* A frame is one running start() or stop(): <<t, "P">> is the t-th call made
\* on the parent, <<t, f>> the call it makes on the subclient of folder f.
Frames == Tops \X Nodes
\* Tahoe objects: <<0, "P">> is the parent Gateway; <<t, f>> the subclient
\* object made by the parent's t-th call; <<0, f>> a subclient object made
\* earlier in the session.
Objs == (Tops \cup {0}) \X Nodes
NoClient == <<>>
NoFile == <<>>

VARIABLES
    platform,      \* sys.platform: "win32" or "linux"
    cfg,           \* cfg[f]: magic-folders/f/tahoe.cfg exists
    yaml,          \* private/magic_folders.yaml: "absent", "native" or "nodedir" per folder
    pidfile,       \* contents of twistd.pid per node directory (NoFile: no file)
    daemon,        \* pid of the node daemon running in each node directory (0: none)
    urlfile,       \* contents of node.url per node directory
    tokfile,       \* contents of private/api_auth_token per node directory
    nodeurl,       \* self.nodeurl of each Tahoe object (<<>>: None)
    api_token,     \* self.api_token of each Tahoe object (<<>>: None)
    magic_folders, \* self.magic_folders of the parent Gateway
    frame,         \* position and history of every start()/stop() call
    lock,        \* self.lock, the DeferredLock: [locked, holder, waiting]
    linkPc,      \* position of each link/unlink call
    linkOp,      \* "link" or "unlink"
    linkResp,    \* what treq.post gave the call: "none", "200", "500", "connfail"
    linkWaited,  \* history: the call found the lock held and had to wait for it
    rootPc,      \* position of each create_rootcap call
    rootReq,     \* number of the mkdir request each create_rootcap call sent
    rootRet,     \* value returned by each create_rootcap call
    rootcap,     \* self.rootcap, the cached capability
    rootcapFile, \* contents of private/rootcap (NoCap: the file does not exist)
    rootWrites,  \* sequence of capabilities written to private/rootcap
    mkdirCount,  \* number of POST /uri?t=mkdir requests sent so far
    proc,        \* the process spawned by command(): trigger, output, exit, pipes
    cp,          \* the CommandProtocol of the call: output, hook lines, self.done
    pp,          \* the _win32_popen call run on the same process
    shares_happy, \* self.shares_happy of the parent Gateway (NoneVal: None)
    web,          \* what the daemon's welcome page answers right now
    ready,        \* position and history of the await_ready() call
    mf,           \* position and history of the create_magic_folder() call
    fop,          \* one invite, uninvite, status or remove call on a folder name
    ld,           \* load_magic_folders: the registry, the persisted table, the disk
    gj,           \* one get_json or get_magic_folder_info call and the daemon it asks
    al,           \* private/aliases and one get_aliases / get_alias call
    gs,           \* one get_grid_status call on a daemon that answered
    acc,          \* the registry's names and cached settings under the accessors
    ov            \* start() and stop() calls that overlap on one Gateway

capVars == <<lock, linkPc, linkOp, linkResp, linkWaited, rootPc, rootReq, rootRet, rootcap,
             rootcapFile, rootWrites, mkdirCount>>

linkVars == <<lock, linkPc, linkOp, linkResp, linkWaited>>
rootVars == <<rootPc, rootReq, rootRet, rootcap, rootcapFile, rootWrites, mkdirCount>>

lifeVars == <<platform, cfg, yaml, pidfile, daemon, urlfile, tokfile, nodeurl,
              api_token, magic_folders, frame>>

runVars == <<proc, cp, pp>>

readyVars == <<shares_happy, web, ready>>

\* The variables of the specifications after the lifecycle.
\* The variables of the folder operations, the loader, the JSON queries and
\* the alias table.
\* The variables of the status parser, the accessors and the overlapping calls.
lastVars == <<gs, acc, ov>>

moreVars == <<fop, ld, gj, al, lastVars>>

extVars == <<runVars, readyVars, mf, moreVars>>

vars == <<capVars, lifeVars, extVars>>

\* --------------------------------------------------------- DeferredLock
\* The lock is free: nobody holds it and nobody waits.
FreeLock == [locked |-> FALSE, holder |-> 0, waiting |-> <<>>]

\* Mutant of LockAcquire: the call is let through although the lock is held.
LockAcquireNoWait(l, c) == [l EXCEPT !.locked = TRUE, !.holder = c]

\* self.lock.acquire(): granted at once when free, else queued in FIFO order.
LockAcquire(l, c) ==
    IF l.locked
    THEN [l EXCEPT !.waiting = Append(@, c)]
    ELSE [l EXCEPT !.locked = TRUE, !.holder = c]

\* lock.release(): the lock goes to the first waiter, if any, whose
\* continuation runs inside release().
LockRelease(l) ==
    IF l.waiting = <<>>
    THEN FreeLock
    ELSE [locked |-> TRUE, holder |-> Head(l.waiting), waiting |-> Tail(l.waiting)]

\* Mutant of LinkFinally: the lock is released only when treq.post returned a
\* response, as if release() followed the request without try/finally.
LinkFinallyNoFinally(l, outcome) ==
    IF outcome = "connfail" THEN l ELSE LockRelease(l)

\* The finally: clause of link/unlink: release whatever treq.post did.
LinkFinally(l, outcome) == LockRelease(l)

\* The position of call c once the lock state is l: a call that holds the
\* lock has sent its request.
LinkPcAfter(l, c, old) ==
    IF l.locked /\ l.holder = c /\ old \in {"idle", "waiting"} THEN "request" ELSE old

\* --------------------------------------------------------- link / unlink
\* link(dircap, childname, childcap) or unlink(dircap, childname) is called:
\* acquire the lock and, if granted, send the request.
LinkCall(c, op) ==
    /\ linkPc[c] = "idle"
    /\ linkOp' = [linkOp EXCEPT ![c] = op]
    /\ lock' = LockAcquire(lock, c)
    /\ linkPc' = [linkPc EXCEPT ![c] = LinkPcAfter(lock', c, "waiting")]
    /\ linkWaited' = [linkWaited EXCEPT ![c] = (linkPc'[c] = "waiting")]
    /\ UNCHANGED <<linkResp, rootVars, lifeVars, extVars>>

\* treq.post of call c completes with a status, or fails (ConnectError).
\* The finally: clause releases the lock, which lets the next waiter send its
\* request; then a 200 ends the call, another status waits for treq.content,
\* and a failure is re-raised.
LinkResponse(c, outcome) ==
    /\ linkPc[c] = "request"
    /\ linkResp' = [linkResp EXCEPT ![c] = outcome]
    /\ lock' = LinkFinally(lock, outcome)
    /\ linkPc' = [d \in LinkCalls |->
                    IF d = c
                    THEN CASE outcome = "200" -> "done"
                           [] outcome = "500" -> "content"
                           [] OTHER -> "failed"
                    ELSE LinkPcAfter(lock', d, linkPc[d])]
    /\ UNCHANGED <<linkOp, linkWaited, rootVars, lifeVars, extVars>>

\* treq.content(resp) of a non-200 response arrives: raise TahoeWebError.
LinkContent(c) ==
    /\ linkPc[c] = "content"
    /\ linkPc' = [linkPc EXCEPT ![c] = "weberror"]
    /\ UNCHANGED <<lock, linkOp, linkResp, linkWaited, rootVars, lifeVars, extVars>>

LinkEnded == {"done", "weberror", "failed"}

\* ------------------------------------------------- mkdir / create_rootcap
\* Mutant of RootcapExists: the guard never sees the file.
RootcapExistsNever(file) == FALSE

\* os.path.exists(self.rootcap_path)
RootcapExists(file) == file # NoCap

\* create_rootcap() is called: raise OSError if the rootcap file exists, else
\* send the mkdir request and wait for it.
CreateRootcapCall(c) ==
    /\ rootPc[c] = "idle"
    /\ IF RootcapExists(rootcapFile)
       THEN /\ rootPc' = [rootPc EXCEPT ![c] = "oserror"]
            /\ UNCHANGED <<rootReq, mkdirCount>>
       ELSE /\ rootPc' = [rootPc EXCEPT ![c] = "mkdir"]
            /\ mkdirCount' = mkdirCount + 1
            /\ rootReq' = [rootReq EXCEPT ![c] = mkdirCount + 1]
    /\ UNCHANGED <<linkVars, rootRet, rootcap, rootcapFile, rootWrites, lifeVars, extVars>>

\* The mkdir request of call c is answered: 200 goes on to read the body,
\* any other status raises TahoeWebError, a connection failure propagates.
MkdirResponse(c, outcome) ==
    /\ rootPc[c] = "mkdir"
    /\ rootPc' = [rootPc EXCEPT ![c] =
                    CASE outcome = "200" -> "content"
                      [] outcome = "500" -> "weberror"
                      [] OTHER -> "failed"]
    /\ UNCHANGED <<linkVars, rootReq, rootRet, rootcap, rootcapFile, rootWrites,
                   mkdirCount, lifeVars, extVars>>

\* The body of the mkdir response arrives: mkdir() returns the new dircap,
\* create_rootcap caches it, writes it to the rootcap file (mode 'w', which
\* replaces whatever the file holds) and returns it.
MkdirContent(c) ==
    /\ rootPc[c] = "content"
    /\ rootcap' = rootReq[c]
    /\ rootcapFile' = rootcap'
    /\ rootWrites' = Append(rootWrites, rootcap')
    /\ rootRet' = [rootRet EXCEPT ![c] = rootcap']
    /\ rootPc' = [rootPc EXCEPT ![c] = "done"]
    /\ UNCHANGED <<linkVars, rootReq, mkdirCount, lifeVars, extVars>>

\* get_rootcap(): load the cache from the file when nothing is cached.
GetRootcap ==
    /\ rootcap = NoCap
    /\ rootcapFile # NoCap
    /\ rootcap' = rootcapFile
    /\ UNCHANGED <<linkVars, rootPc, rootReq, rootRet, rootcapFile, rootWrites,
                   mkdirCount, lifeVars, extVars>>

\* ======================================================================
\* Gateway lifecycle: start(), stop() and the subclients
\* ======================================================================

\* ------------------------------------------------------------ file text
\* Text is a sequence of characters.  str(pid) and int(text) are decimal.
Digits == <<"0", "1", "2", "3", "4", "5", "6", "7", "8", "9">>
Whitespace == {" ", "\n"}

\* str(pid)
PidStr(p) ==
    IF p < 10 THEN <<Digits[p + 1]>>
    ELSE <<Digits[(p \div 10) + 1], Digits[(p % 10) + 1]>>

\* text.isdigit()
IsDigit(text) ==
    /\ text # <<>>
    /\ \A i \in 1..Len(text) : \E d \in 1..10 : Digits[d] = text[i]

DigitVal(ch) == (CHOOSE d \in 1..10 : Digits[d] = ch) - 1

\* int(text), for text that is all digits
RECURSIVE IntOf(_)
IntOf(text) ==
    IF text = <<>> THEN 0
    ELSE 10 * IntOf(SubSeq(text, 1, Len(text) - 1)) + DigitVal(text[Len(text)])

\* text.strip()
RECURSIVE Strip(_)
Strip(text) ==
    IF text = <<>> THEN <<>>
    ELSE IF Head(text) \in Whitespace THEN Strip(Tail(text))
    ELSE IF text[Len(text)] \in Whitespace THEN Strip(SubSeq(text, 1, Len(text) - 1))
    ELSE text

\* What the node daemon writes to node.url and private/api_auth_token when
\* it starts, and what "tahoe run" prints when it exits at once.
UrlText == <<"h", "t", "t", "p", "\n">>
TokenText == <<"t", "o", "k", "\n">>
OutputText == <<"o", "u", "t">>

\* --------------------------------------------------------------- frames
Top(t) == <<t, "P">>
Kid(x, f) == <<x[1], f>>
NodeOf(x) == x[2]
IsTop(x) == x[2] = "P"
\* The Tahoe object a frame's call is made on.
ObjOf(x) == IF IsTop(x) THEN <<0, "P">> ELSE x

\* A call that has not run yet.  Besides op and pc the fields are history:
\* what the call has done so far.
FreshFrame(op) ==
    [op |-> op,              \* "none", "start" or "stop"
     pc |-> "idle",          \* idle, stop_cmd, stop_gather, run_cmd, start_gather, done, failed
     hadPid |-> FALSE,       \* twistd.pid existed when the call was made
     pidText |-> NoFile,     \* what twistd.pid held when stop() looked
     sig |-> 0,              \* pid that os.kill was called on
     killErr |-> FALSE,      \* os.kill raised "no such process"
     pidRemoved |-> FALSE,   \* os.remove(self.pidfile) was called
     stopCmd |-> FALSE,      \* the "stop" command was issued
     stopErr |-> FALSE,      \* the "stop" command raised TahoeCommandError
     stopRet |-> "none",     \* stop() resolved: "early" (no pid file) or "full"
     stopKids |-> {},        \* subclients whose stop() was invoked
     stopKidsOpen |-> {},    \* of those, the ones unresolved when stop() resolved
     runCmd |-> FALSE,       \* the "run" command was issued
     runAfter |-> "none",    \* stopRet at the time "run" was issued
     runOut |-> "none",      \* how "run" resolved: trigger, clean, failed
     setUrl |-> FALSE,       \* start() assigned self.nodeurl
     setToken |-> FALSE,     \* start() assigned self.api_token
     startKids |-> {},       \* subclients whose start() was invoked
     startKidsOpen |-> {},   \* of those, the ones unresolved when start() resolved
     fail |-> "none"]        \* why the call failed: run, files, child

\* The lifecycle state as one record, so that the code a completion resumes
\* can be written as a function from state to state.
Cur ==
    [pidfile |-> pidfile, daemon |-> daemon, urlfile |-> urlfile, tokfile |-> tokfile,
     nodeurl |-> nodeurl, api_token |-> api_token, magic_folders |-> magic_folders,
     frame |-> frame]

Becomes(s) ==
    /\ pidfile' = s.pidfile
    /\ daemon' = s.daemon
    /\ urlfile' = s.urlfile
    /\ tokfile' = s.tokfile
    /\ nodeurl' = s.nodeurl
    /\ api_token' = s.api_token
    /\ magic_folders' = s.magic_folders
    /\ frame' = s.frame
    /\ UNCHANGED <<platform, cfg, yaml, capVars, extVars>>

\* get_nodedirs(self.magic_folders_dir): the nested node directories that hold
\* a tahoe.cfg.  A subclient has no magic-folders directory of its own.
get_nodedirs(x) == IF IsTop(x) THEN {f \in Folders : cfg[f]} ELSE {}

\* Mutant of PidfileExists: stop() goes on without a pid file.
PidfileExistsAlways(text) == TRUE

\* os.path.isfile(self.pidfile)
PidfileExists(text) == text # NoFile

\* A pid the operating system can give a new process: the lowest one that no
\* running daemon has and no pid file still names.
FreePids(s) ==
    {p \in Pids : \A n \in Nodes :
        /\ s.daemon[n] # p
        /\ (s.pidfile[n] # NoFile => IntOf(s.pidfile[n]) # p)}
NewPid(s) == CHOOSE p \in FreePids(s) : \A q \in FreePids(s) : p <= q

RECURSIVE StopEntry(_, _), StopSubclients(_, _), StopKidsLoop(_, _, _),
          StopResolved(_, _), NotifyParent(_, _), StartEntry(_, _),
          StartResolved(_, _), StartKidsLoop(_, _, _)

\* start() issues the "run" command and waits for its trigger line.
SpawnRun(s, x) ==
    [s EXCEPT !.frame[x].pc = "run_cmd",
              !.frame[x].runCmd = TRUE,
              !.frame[x].runAfter = s.frame[x].stopRet]

\* start() raises.
StartFailed(s, x, why) ==
    NotifyParent([s EXCEPT !.frame[x].pc = "failed", !.frame[x].fail = why], x)

\* stop() on win32: read the pid, os.kill(pid, SIGTERM) ignoring OSError,
\* os.remove(self.pidfile).  The signal ends the daemon if it is that process;
\* otherwise there is no such process and os.kill raises ESRCH.
SignalPath(s, x) ==
    LET n == NodeOf(x)
        pid == IntOf(s.pidfile[n])
        alive == s.daemon[n] = pid
    IN  [s EXCEPT !.daemon[n] = IF alive THEN 0 ELSE @,
                  !.pidfile[n] = NoFile,
                  !.frame[x].sig = pid,
                  !.frame[x].killErr = ~alive,
                  !.frame[x].pidRemoved = TRUE]

\* stop() up to its first wait: return at once without a pid file; on win32
\* signal the pid and go on to the subclients; elsewhere issue "stop".
StopEntry(s, x) ==
    LET n == NodeOf(x)
        s1 == [s EXCEPT !.frame[x].hadPid = (s.pidfile[n] # NoFile),
                        !.frame[x].pidText = s.pidfile[n]]
    IN  IF ~PidfileExists(s.pidfile[n])
        THEN StopResolved([s1 EXCEPT !.frame[x].stopRet = "early"], x)
        ELSE IF platform = "win32"
        THEN StopSubclients(SignalPath(s1, x), x)
        ELSE [s1 EXCEPT !.frame[x].pc = "stop_cmd", !.frame[x].stopCmd = TRUE]

\* The loop of _stop_magic_folder_subclients: Tahoe(nodedir).stop() for each
\* nested node directory.
StopKidsLoop(s, x, todo) ==
    IF todo = {} THEN s
    ELSE LET f == CHOOSE g \in todo : TRUE
             s1 == [s EXCEPT !.frame[Kid(x, f)] = FreshFrame("stop")]
         IN  StopKidsLoop(StopEntry(s1, Kid(x, f)), x, todo \ {f})

\* Mutant of StopGather: stop() does not wait for the subclients' stop().
StopGatherNoWait(s, x) == StopResolved([s EXCEPT !.frame[x].stopRet = "full"], x)

\* yield gatherResults(tasks) in _stop_magic_folder_subclients: resolved at
\* once when every task already is, else wait.
StopGather(s, x) ==
    IF \A f \in s.frame[x].stopKids : s.frame[Kid(x, f)].pc = "done"
    THEN StopResolved([s EXCEPT !.frame[x].stopRet = "full"], x)
    ELSE [s EXCEPT !.frame[x].pc = "stop_gather"]

\* _stop_magic_folder_subclients()
StopSubclients(s, x) ==
    LET kids == get_nodedirs(x)
        s1 == StopKidsLoop([s EXCEPT !.frame[x].stopKids = kids], x, kids)
    IN  StopGather(s1, x)

\* stop() has resolved: a stop() called by start() lets start() go on to
\* "run"; otherwise the call is over and whoever gathers it is told.
StopResolved(s, x) ==
    LET open == {f \in s.frame[x].stopKids : s.frame[Kid(x, f)].pc # "done"}
        s1 == [s EXCEPT !.frame[x].stopKidsOpen = open]
    IN  IF s.frame[x].op = "start"
        THEN SpawnRun(s1, x)
        ELSE NotifyParent([s1 EXCEPT !.frame[x].pc = "done"], x)

\* A subclient's call ended: gatherResults in the parent fires when all its
\* tasks have resolved, and fails as soon as one of them fails.
NotifyParent(s, x) ==
    IF IsTop(x) THEN s
    ELSE LET p == Top(x[1])
         IN  CASE s.frame[p].pc = "stop_gather" -> StopGather(s, p)
               [] s.frame[p].pc = "start_gather" /\ s.frame[x].pc = "failed" ->
                      StartFailed(s, p, "child")
               [] s.frame[p].pc = "start_gather" /\ s.frame[x].pc = "done"
                    /\ \A f \in s.frame[p].startKids : s.frame[Kid(p, f)].pc = "done" ->
                      StartResolved(s, p)
               [] OTHER -> s

\* Mutant of StartEntry: "run" is issued whether or not a pid file exists,
\* without a stop() first.
StartEntryNoStop(s, x) ==
    SpawnRun([s EXCEPT !.frame[x].hadPid = (s.pidfile[NodeOf(x)] # NoFile)], x)

\* start() up to its first wait: stop() first if a pid file exists, then "run".
StartEntry(s, x) ==
    LET n == NodeOf(x)
        s1 == [s EXCEPT !.frame[x].hadPid = (s.pidfile[n] # NoFile)]
    IN  IF PidfileExists(s.pidfile[n])
        THEN StopEntry(s1, x)
        ELSE SpawnRun(s1, x)

\* load_magic_folders(): every entry of the persisted table replaces the
\* registry's entry of that name; every nested node directory whose name is
\* not registered yet is added with its nodedir.
load_magic_folders(s, x) ==
    IF ~IsTop(x) THEN s
    ELSE [s EXCEPT !.magic_folders = [f \in Folders |->
            IF yaml[f] # "absent"
            THEN [present |-> TRUE, nodedir |-> (yaml[f] = "nodedir"), client |-> NoClient]
            ELSE IF cfg[f] /\ ~s.magic_folders[f].present
            THEN [present |-> TRUE, nodedir |-> TRUE, client |-> NoClient]
            ELSE s.magic_folders[f]]]

\* The registry entries _start_magic_folder_subclients starts a client for:
\* those whose settings hold a 'nodedir'.
SubclientsToStart(s, x) ==
    IF IsTop(x)
    THEN {f \in Folders : s.magic_folders[f].present /\ s.magic_folders[f].nodedir}
    ELSE {}

\* The loop of _start_magic_folder_subclients: a new Tahoe object per entry,
\* stored as the entry's 'client', and its start().
StartKidsLoop(s, x, todo) ==
    IF todo = {} THEN s
    ELSE LET f == CHOOSE g \in todo : TRUE
             k == Kid(x, f)
             s1 == [s EXCEPT !.frame[k] = FreshFrame("start"),
                             !.magic_folders[f].client = k]
         IN  StartKidsLoop(StartEntry(s1, k), x, todo \ {f})

\* yield gatherResults(tasks) in _start_magic_folder_subclients
StartGather(s, x) ==
    IF \A f \in s.frame[x].startKids : s.frame[Kid(x, f)].pc = "done"
    THEN StartResolved(s, x)
    ELSE [s EXCEPT !.frame[x].pc = "start_gather"]

\* start() has resolved.
StartResolved(s, x) ==
    LET open == {f \in s.frame[x].startKids : s.frame[Kid(x, f)].pc # "done"}
    IN  NotifyParent([s EXCEPT !.frame[x].pc = "done",
                               !.frame[x].startKidsOpen = open], x)

\* start() after "run" resolved with `value` (the pid, or the output of a
\* process that exited cleanly): on win32 write the pid file if the value is a
\* number; read node.url and the token (open() raises if a file is missing);
\* load the registry and start the subclients.  The read of shares.happy
\* (line 310) is left out: tahoe.cfg is taken to hold the option, as every
\* configuration written by create-client does.
StartPost(s, x, value) ==
    LET n == NodeOf(x)
        o == ObjOf(x)
        pid == value
        s1 == IF platform = "win32" /\ IsDigit(pid)
              THEN [s EXCEPT !.pidfile[n] = pid] ELSE s
    IN  IF s1.urlfile[n] = NoFile THEN StartFailed(s1, x, "files")
        ELSE LET s2 == [s1 EXCEPT !.nodeurl[o] = Strip(s1.urlfile[n]),
                                  !.frame[x].setUrl = TRUE]
             IN  IF s2.tokfile[n] = NoFile THEN StartFailed(s2, x, "files")
                 ELSE LET s3 == [s2 EXCEPT !.api_token[o] = Strip(s2.tokfile[n]),
                                           !.frame[x].setToken = TRUE]
                          s4 == load_magic_folders(s3, x)
                          kids == SubclientsToStart(s4, x)
                          s5 == StartKidsLoop([s4 EXCEPT !.frame[x].startKids = kids],
                                              x, kids)
                      IN  StartGather(s5, x)

\* -------------------------------------------------------------- actions
\* start() is called on the parent Gateway.
StartCall(t) ==
    /\ frame[Top(t)].pc = "idle"
    /\ frame[Top(t)].op = "none"
    /\ Becomes(StartEntry([Cur EXCEPT !.frame[Top(t)].op = "start"], Top(t)))

\* stop() is called on the parent Gateway.
StopCall(t) ==
    /\ frame[Top(t)].pc = "idle"
    /\ frame[Top(t)].op = "none"
    /\ Becomes(StopEntry([Cur EXCEPT !.frame[Top(t)].op = "stop"], Top(t)))

\* Mutant of StopCmdResult: a failed "stop" command is not caught.
StopCmdResultRaises(s, x, ok) ==
    IF ok THEN StopSubclients(s, x)
    ELSE [s EXCEPT !.frame[x].pc = "failed", !.frame[x].stopErr = TRUE]

\* try: yield self.command(['stop']) / except TahoeCommandError: pass, and then
\* the subclients.
StopCmdResult(s, x, ok) ==
    StopSubclients([s EXCEPT !.frame[x].stopErr = ~ok], x)

\* The "stop" command of frame x ends.  "tahoe stop" kills the process the pid
\* file names and removes the file; if there is no such process it removes the
\* stale file and exits with an error, which command() raises as
\* TahoeCommandError.
StopCmdDone(x) ==
    /\ frame[x].pc = "stop_cmd"
    /\ LET n == NodeOf(x)
           ok == pidfile[n] # NoFile /\ daemon[n] = IntOf(pidfile[n])
           s1 == [Cur EXCEPT !.daemon[n] = IF ok THEN 0 ELSE @,
                             !.pidfile[n] = NoFile]
       IN  Becomes(StopCmdResult(s1, x, ok))

\* The "run" command of frame x resolves.
\*   trigger: the daemon came up (it wrote node.url and the token file and,
\*            except on win32, its pid file) and printed the trigger line:
\*            command() returns the pid.  Only one daemon runs in a directory.
\*   clean:   the process exited with status 0 before any trigger line:
\*            command() returns its output.
\*   failed:  the process exited with another status: TahoeCommandError.
RunDone(x, outcome) ==
    /\ frame[x].pc = "run_cmd"
    /\ LET n == NodeOf(x)
           s0 == [Cur EXCEPT !.frame[x].runOut = outcome]
       IN  \/ /\ outcome = "trigger"
              /\ daemon[n] = 0
              /\ FreePids(Cur) # {}
              /\ LET p == NewPid(Cur)
                     s1 == [s0 EXCEPT !.daemon[n] = p,
                                      !.urlfile[n] = UrlText,
                                      !.tokfile[n] = TokenText,
                                      !.pidfile[n] = IF platform = "win32"
                                                     THEN @ ELSE PidStr(p)]
                 IN  Becomes(StartPost(s1, x, PidStr(p)))
           \/ /\ outcome = "clean"
              /\ Becomes(StartPost(s0, x, OutputText))
           \/ /\ outcome = "failed"
              /\ Becomes(StartFailed(s0, x, "run"))

\* ======================================================================
\* command(): one spawned process and the two launchers
\* ======================================================================
\* The process writes data to its pipes, closes them and exits.  The reactor
\* hands the data to CommandProtocol in chunks whose boundaries need not be
\* line boundaries; the thread of _win32_popen reads the same bytes with
\* readline().  Both launchers are run on the same process so that their
\* outcomes can be compared.

MaxChunkLen == 2     \* characters in one chunk of data
MaxChunks == 2       \* chunks the process writes

\* The characters the process prints, and the callback_trigger of the call.
RunChars == {"o", "k", " ", "\n"}
Trigger == <<"o", "k">>
Chunks == UNION {[1..n -> RunChars] : n \in 1..MaxChunkLen}

\* text.rstrip()
RECURSIVE RStrip(_)
RStrip(text) ==
    IF text = <<>> THEN <<>>
    ELSE IF text[Len(text)] \in Whitespace THEN RStrip(SubSeq(text, 1, Len(text) - 1))
    ELSE text

HasNewline(text) == \E i \in 1..Len(text) : text[i] = "\n"
FirstNewline(text) ==
    CHOOSE i \in 1..Len(text) : text[i] = "\n" /\ \A j \in 1..(i - 1) : text[j] # "\n"

\* text.split('\n')
RECURSIVE SplitLines(_)
SplitLines(text) ==
    IF ~HasNewline(text) THEN <<text>>
    ELSE LET i == FirstNewline(text)
         IN  <<SubSeq(text, 1, i - 1)>> \o SplitLines(SubSeq(text, i + 1, Len(text)))

\* trigger in line
Contains(line, trigger) ==
    \E i \in 1..(Len(line) - Len(trigger) + 1) :
        SubSeq(line, i, i + Len(trigger) - 1) = trigger

\* str(bytes): the bytes themselves on Python 2, their repr b'...' on Python 3.
RECURSIVE Escaped(_)
Escaped(text) ==
    IF text = <<>> THEN <<>>
    ELSE (IF Head(text) = "\n" THEN <<"\\", "n">> ELSE <<Head(text)>>) \o Escaped(Tail(text))

PyStr(py, text) == IF py = 2 THEN text ELSE <<"b", "'">> \o Escaped(text) \o <<"'">>

\* A launcher's view of the call: kind is "pending" until the Deferred fires,
\* then "pid" (resolved with the process id), "output" (resolved with text) or
\* "error" (TahoeCommandError carrying text).  hook is the sequence of lines
\* passed to line_received.
NewProtocol == [output |-> <<>>, hook |-> <<>>, kind |-> "pending", text |-> <<>>,
                running |-> FALSE]

\* The for loop of outReceived over data.strip().split('\n').
RECURSIVE FeedLines(_, _, _)
FeedLines(c, lines, trigger) ==
    IF lines = <<>> THEN c
    ELSE LET line == Head(lines)
             c1 == IF line # <<>> THEN [c EXCEPT !.hook = Append(@, line)] ELSE c
             c2 == IF c1.kind = "pending" /\ trigger /\ Contains(line, Trigger)
                   THEN [c1 EXCEPT !.kind = "pid", !.running = (proc.exit = "running")]
                   ELSE c1
         IN  FeedLines(c2, Tail(lines), trigger)

\* CommandProtocol.outReceived(data); errReceived does the same.
outReceived(c, data, trigger) ==
    FeedLines([c EXCEPT !.output = @ \o data], SplitLines(Strip(data)), trigger)

\* Mutant of processExited: an abnormal exit is not reported.
processExitedIgnored(c, status) == c

\* CommandProtocol.processExited(reason)
processExited(c, status) ==
    IF c.kind = "pending" /\ status # "clean"
    THEN [c EXCEPT !.kind = "error", !.text = Strip(c.output)]
    ELSE c

\* Mutant of processEnded: the Deferred is fired whether or not it was.
processEndedUnguarded(c) == [c EXCEPT !.kind = "output", !.text = c.output]

\* Mutant of processEnded: the result is the output without its surrounding
\* whitespace.
processEndedStripped(c) ==
    IF c.kind = "pending" THEN [c EXCEPT !.kind = "output", !.text = Strip(c.output)] ELSE c

\* CommandProtocol.processEnded(reason)
processEnded(c) ==
    IF c.kind = "pending" THEN [c EXCEPT !.kind = "output", !.text = c.output] ELSE c

\* What proc.stdout.readline() returns, call after call: the lines with their
\* newline and, once the pipe is closed, the unfinished last line.
RECURSIVE ReadLines(_, _)
ReadLines(stream, eof) ==
    IF ~HasNewline(stream)
    THEN IF eof /\ stream # <<>> THEN <<stream>> ELSE <<>>
    ELSE LET i == FirstNewline(stream)
         IN  <<SubSeq(stream, 1, i)>> \o ReadLines(SubSeq(stream, i + 1, Len(stream)), eof)

\* The for loop of _win32_popen over the lines read so far.
RECURSIVE PopenLoop(_, _, _)
PopenLoop(p, lines, trigger) ==
    IF lines = <<>> THEN p
    ELSE LET line == Head(lines)
             p1 == [p EXCEPT !.output = @ \o line, !.hook = Append(@, RStrip(line))]
         IN  IF trigger /\ Contains(RStrip(line), Trigger)
             THEN [p1 EXCEPT !.kind = "pid", !.running = (proc.exit = "running")]
             ELSE PopenLoop(p1, Tail(lines), trigger)

\* _win32_popen after the loop: proc.poll() gives the exit status, or None
\* when the process has closed its pipes and not exited yet.
PopenPolled(p, py, status) ==
    IF status = "abnormal"
    THEN [p EXCEPT !.kind = "error", !.text = Strip(PyStr(py, p.output))]
    ELSE [p EXCEPT !.kind = "output", !.text = Strip(PyStr(py, p.output))]

\* The process writes a chunk of data to stdout or stderr.
RunChunk(data) ==
    /\ proc.spawned /\ ~proc.eof
    /\ proc.chunks < MaxChunks
    /\ proc' = [proc EXCEPT !.stream = @ \o data, !.chunks = @ + 1]
    /\ cp' = outReceived(cp, data, proc.trigger)
    /\ pp' = IF pp.kind = "pending"
             THEN PopenLoop(NewProtocol, ReadLines(proc'.stream, FALSE), proc.trigger)
             ELSE pp
    /\ UNCHANGED <<capVars, lifeVars, readyVars, mf, moreVars>>

\* The process exits; if its pipes are closed already the protocol has ended.
RunExit(status) ==
    /\ proc.spawned /\ proc.exit = "running"
    /\ proc' = [proc EXCEPT !.exit = status, !.exitLen = Len(proc.stream)]
    /\ cp' = LET c == processExited(cp, status)
             IN  IF proc.eof THEN processEnded(c) ELSE c
    /\ UNCHANGED <<pp, capVars, lifeVars, readyVars, mf, moreVars>>

\* The pipes of the process are closed: readline() returns what is left, and
\* if the process has exited already the protocol has ended.
RunEof ==
    /\ proc.spawned /\ ~proc.eof
    /\ proc' = [proc EXCEPT !.eof = TRUE]
    /\ cp' = IF proc.exit # "running" THEN processEnded(cp) ELSE cp
    /\ pp' = IF pp.kind = "pending"
             THEN PopenLoop(NewProtocol, ReadLines(proc.stream, TRUE), proc.trigger)
             ELSE pp
    /\ UNCHANGED <<capVars, lifeVars, readyVars, mf, moreVars>>

\* The thread of _win32_popen leaves its loop at end of file and polls.
PopenPoll ==
    /\ proc.eof /\ pp.kind = "pending"
    /\ pp' = PopenPolled(pp, proc.py, proc.exit)
    /\ UNCHANGED <<proc, cp, capVars, lifeVars, readyVars, mf, moreVars>>

NewProc(trigger, py) ==
    [spawned |-> TRUE, trigger |-> trigger, py |-> py, stream |-> <<>>, chunks |-> 0,
     exit |-> "running", exitLen |-> 0, eof |-> FALSE]

\* No command is run.
RunIdle ==
    /\ proc = [NewProc(FALSE, 2) EXCEPT !.spawned = FALSE]
    /\ cp = NewProtocol
    /\ pp = NewProtocol

\* command(args, callback_trigger) has spawned its process.
RunInit ==
    /\ \E trigger \in BOOLEAN, py \in {2, 3} : proc = NewProc(trigger, py)
    /\ cp = NewProtocol
    /\ pp = NewProtocol

\* ======================================================================
\* is_ready() and await_ready()
\* ======================================================================
MaxHappy == 2        \* largest shares.happy
MaxServers == 2      \* largest number of connected storage servers
MaxPolls == 3        \* is_ready polls one await_ready call makes

\* Python's None where a number is expected.
NoneVal == -1

\* bool(v) of None or of a number
Truthy(v) == v # NoneVal /\ v # 0

\* What a GET of the daemon's welcome page gives right now: the connection
\* fails ("down"), the status is not 200 ("error"), the page does not name
\* the number of connected servers ("nomatch"), or it names n ("count").
Webs ==
    {[kind |-> k, n |-> 0] : k \in {"down", "error", "nomatch"}}
        \cup {[kind |-> "count", n |-> n] : n \in 0..MaxServers}

\* get_connected_servers() once the page is read: int(match.group(1)) or None.
ConnectedOf(w) == IF w.kind = "count" THEN w.n ELSE NoneVal

\* Mutant of IsReadyResult: the threshold itself is not enough.
IsReadyResultAbove(happy, connected) == Truthy(connected) /\ connected > happy

\* is_ready() after get_connected_servers() returned `connected`.
IsReadyResult(happy, connected) ==
    IF ~Truthy(connected) THEN FALSE
    ELSE IF connected >= happy THEN TRUE
    ELSE FALSE

NoPoll == [happy |-> NoneVal, web |-> [kind |-> "down", n |-> 0], result |-> FALSE]

\* The Gateway as link, create_rootcap, start and stop leave it.
GatewayState ==
    <<shares_happy, nodeurl, api_token, magic_folders, lock, rootcap, rootcapFile,
      pidfile, daemon, urlfile, tokfile>>

\* Mutant of PollDone: await_ready returns after its first poll.
PollDoneOnce(r, result) ==
    [r EXCEPT !.polls = @ + 1, !.pc = "done",
              !.last = [happy |-> shares_happy, web |-> web, result |-> result]]

\* is_ready() returned `result` to await_ready: leave the loop when true,
\* else wait 0.2 s (deferLater) before the next poll.
PollDone(r, result) ==
    [r EXCEPT !.polls = @ + 1,
              !.pc = IF result THEN "done" ELSE "sleep",
              !.last = [happy |-> shares_happy, web |-> web, result |-> result]]

\* is_ready() up to its first wait: False at once without a threshold;
\* get_connected_servers() returns None at once without a nodeurl, else it
\* sends the GET.
IsReadyEntry(r) ==
    IF ~Truthy(shares_happy) THEN PollDone(r, FALSE)
    ELSE IF nodeurl[<<0, "P">>] = <<>>
         THEN PollDone(r, IsReadyResult(shares_happy, NoneVal))
         ELSE [r EXCEPT !.pc = "get"]

\* await_ready() is called: the first poll.
AwaitReadyCall ==
    /\ ready.pc = "idle"
    /\ ready' = IsReadyEntry([ready EXCEPT !.called = TRUE, !.before = GatewayState])
    /\ UNCHANGED <<shares_happy, web, capVars, lifeVars, runVars, mf, moreVars>>

\* treq.get(self.nodeurl) is answered or fails: ConnectError and a status
\* other than 200 make get_connected_servers() return None.
ReadyGetDone ==
    /\ ready.pc = "get"
    /\ ready' = IF web.kind \in {"down", "error"}
                THEN PollDone(ready, IsReadyResult(shares_happy, NoneVal))
                ELSE [ready EXCEPT !.pc = "content"]
    /\ UNCHANGED <<shares_happy, web, capVars, lifeVars, runVars, mf, moreVars>>

\* The body of the welcome page arrives.
ReadyContent ==
    /\ ready.pc = "content"
    /\ ready' = PollDone(ready, IsReadyResult(shares_happy, ConnectedOf(web)))
    /\ UNCHANGED <<shares_happy, web, capVars, lifeVars, runVars, mf, moreVars>>

\* The 0.2 s of deferLater are over: poll again.
ReadySleepDone ==
    /\ ready.pc = "sleep"
    /\ ready.polls < MaxPolls
    /\ ready' = IsReadyEntry(ready)
    /\ UNCHANGED <<shares_happy, web, capVars, lifeVars, runVars, mf, moreVars>>

\* The caller gives the wait up between two polls.
ReadyAbandon ==
    /\ ready.pc = "sleep"
    /\ ready' = [ready EXCEPT !.pc = "abandoned"]
    /\ UNCHANGED <<shares_happy, web, capVars, lifeVars, runVars, mf, moreVars>>

\* Between two polls the daemon gains or loses servers, comes up or goes down.
WebChanges(w) ==
    /\ ready.pc = "sleep"
    /\ w # web
    /\ web' = w
    /\ UNCHANGED <<shares_happy, ready, capVars, lifeVars, runVars, mf, moreVars>>

NewReady == [pc |-> "idle", called |-> FALSE, polls |-> 0, last |-> NoPoll,
             before |-> <<>>]

\* Neither is_ready nor await_ready is called.
ReadyIdle ==
    /\ shares_happy = NoneVal
    /\ web = [kind |-> "down", n |-> 0]
    /\ ready = NewReady

\* ======================================================================
\* create_magic_folder()
\* ======================================================================
\* One create_magic_folder(path, join_code) call on the parent Gateway for
\* the folder whose name, the base name of path, is NewFolder.  stop(), start(),
\* link(), await_ready() and command() are the operations modelled above;
\* here each is one step that is issued, recorded in the log of the call, and
\* later completes or fails.

NewFolder == "f1"

\* What "tahoe magic-folder create -n ..." prints when the daemon's tahoe
\* does not know the -n option, and when it fails for another reason.  Text
\* here is a sequence of pieces rather than of single characters.
NotRecognizedOutput == <<"Error: option -n ", "not recognized", "\n">>
OtherErrorOutput == <<"Error: ", "other failure", "\n">>

\* str(err).endswith(suffix)
EndsWith(text, suffix) ==
    /\ Len(text) >= Len(suffix)
    /\ SubSeq(text, Len(text) - Len(suffix) + 1, Len(text)) = suffix

\* The message of the TahoeCommandError that command() raises for a process
\* that printed `output` and exited with an error: CommandProtocol's on the
\* streaming launcher, _win32_popen's on a frozen win32 build.
CommandErrorText(plat, frozen, py, output) ==
    IF plat = "win32" /\ frozen
    THEN Strip(PyStr(py, output))
    ELSE Strip(output)

Ev(on, op, arg) == [on |-> on, op |-> op, arg |-> arg]

NewCall ==
    [pc |-> "idle",        \* idle, native, a step of the subclient path (s_...) or
                           \* of the parent (p_...), done, failed
     join |-> "none",      \* join_code: "none", or the prefix of its collective cap
     frozen |-> FALSE,     \* getattr(sys, 'frozen', False)
     py |-> 2,             \* major version of the Python that runs the build
     native |-> "none",    \* how the native create command ended: ok, unsupported, error
     sub |-> FALSE,        \* _create_magic_folder_subclient was entered
     alias |-> "none",     \* the add-alias command: none, running, ok, failed
     why |-> "none",       \* the step that made the call fail
     before |-> <<>>,      \* the registry when the call was made
     hadDir |-> FALSE,     \* the nested node directory of the name existed then
     log |-> <<>>]         \* the operations issued, in order

Issue(c, pc, on, op, arg) == [c EXCEPT !.pc = pc, !.log = Append(@, Ev(on, op, arg))]

CallFailed(c, why) == [c EXCEPT !.pc = "failed", !.why = why]

\* create_magic_folder from `yield self.stop()` on: the parent is restarted
\* and the two capabilities are linked into the rootcap.
NativeContinue(c) == Issue(c, "p_stop", "P", "stop", "")

\* create_magic_folder(path, join_code) is called: make the directories and
\* issue the native create command on the parent.
CreateMagicFolderCall(join, frozen, py) ==
    /\ mf.pc = "idle"
    /\ mf' = Issue([mf EXCEPT !.join = join, !.frozen = frozen, !.py = py,
                              !.before = magic_folders, !.hadDir = cfg[NewFolder]],
                   "native", "P", "magic-folder create -n", "")
    /\ UNCHANGED <<capVars, lifeVars, runVars, readyVars, moreVars>>

\* Mutant of SubclientEntry: create_client does not look at the node directory.
SubclientEntryUnchecked(c) ==
    Issue([c EXCEPT !.sub = TRUE], "s_client", "S", "create-client", "")

\* _create_magic_folder_subclient up to its first wait: register the folder
\* with its subclient; create_client raises NodedirExistsError if the nested
\* node directory exists, else it issues the create-client command.
SubclientEntry(c) ==
    IF cfg[NewFolder]
    THEN CallFailed([c EXCEPT !.sub = TRUE], "NodedirExistsError")
    ELSE Issue([c EXCEPT !.sub = TRUE], "s_client", "S", "create-client", "")

\* The native create command ends: successfully, rejected because the option
\* is unknown, or with another error.  Only a TahoeCommandError whose message
\* ends with 'not recognized' leads to the subclient; any other is passed
\* over and the call goes on as after a success.
NativeCreateDone(outcome) ==
    /\ mf.pc = "native"
    /\ LET c == [mf EXCEPT !.native = outcome]
           msg == CommandErrorText(platform, mf.frozen, mf.py,
                     IF outcome = "unsupported" THEN NotRecognizedOutput
                     ELSE OtherErrorOutput)
           fallback == outcome # "ok" /\ EndsWith(msg, <<"not recognized">>)
       IN  /\ mf' = IF fallback THEN SubclientEntry(c) ELSE NativeContinue(c)
           /\ magic_folders' =
                 IF fallback
                 THEN [magic_folders EXCEPT ![NewFolder] =
                          [present |-> TRUE, nodedir |-> FALSE, client |-> <<0, NewFolder>>]]
                 ELSE magic_folders
    /\ UNCHANGED <<platform, cfg, yaml, pidfile, daemon, urlfile, tokfile, nodeurl,
                   api_token, frame, capVars, runVars, readyVars, moreVars>>

\* The collective capability of a join code, named by its prefix: the
\* directory capabilities of the grid are read-write or read-only, in the
\* SDMF or the MDMF format.
CollectiveCaps == {"URI:DIR2:", "URI:DIR2-RO:", "URI:DIR2-MDMF:", "URI:DIR2-MDMF-RO:"}

IsReadWrite(cap) == cap \in {"URI:DIR2:", "URI:DIR2-MDMF:"}

\* data[1]['ro_uri'] of the daemon's JSON for the capability
ReadOnlyOf(cap) ==
    CASE cap = "URI:DIR2:" -> "URI:DIR2-RO:"
      [] cap = "URI:DIR2-MDMF:" -> "URI:DIR2-MDMF-RO:"
      [] OTHER -> cap

\* collective_cap.startswith('URI:DIR2:')
IsAdmin(cap) == cap = "URI:DIR2:"

\* Mutant of AfterReady: the subclient is restarted without the folder command.
AfterReadyNoCommand(c) == Issue(c, "s_stop", "S", "stop", "")

\* After await_ready: with a join code, diminish an admin code (add-alias is
\* started and not waited for, then get_json of the collective cap) and join;
\* without one, create the folder in the subclient.
AfterReady(c) ==
    CASE c.join # "none" /\ IsAdmin(c.join) ->
            Issue([Issue(c, "s_getjson", "S", "add-alias magic:", c.join)
                      EXCEPT !.alias = "running"],
                  "s_getjson", "P", "get_json", c.join)
      [] c.join # "none" -> Issue(c, "s_join", "S", "magic-folder join", c.join)
      [] OTHER -> Issue(c, "s_create", "S", "magic-folder create", "")

\* The step the subclient path waits for completes (ok) or fails.
SubclientStepDone(ok) ==
    /\ mf.pc \in {"s_client", "s_start", "s_ready", "s_getjson", "s_join", "s_create",
                  "s_stop", "s_restart"}
    /\ ok \/ mf.pc \notin {"s_ready", "s_stop"}
    /\ mf' = IF ~ok THEN CallFailed(mf, mf.pc)
             ELSE CASE mf.pc = "s_client" -> Issue(mf, "s_start", "S", "start", "")
                    [] mf.pc = "s_start" -> Issue(mf, "s_ready", "S", "await_ready", "")
                    [] mf.pc = "s_ready" -> AfterReady(mf)
                    [] mf.pc = "s_getjson" ->
                          Issue(mf, "s_join", "S", "magic-folder join", ReadOnlyOf(mf.join))
                    [] mf.pc \in {"s_join", "s_create"} -> Issue(mf, "s_stop", "S", "stop", "")
                    [] mf.pc = "s_stop" -> Issue(mf, "s_restart", "S", "start", "")
                    [] OTHER -> IF mf.join # "none"
                                THEN [mf EXCEPT !.pc = "done"]
                                ELSE Issue(mf, "p_link1", "P", "link", "collective")
    /\ cfg' = IF mf.pc = "s_client" /\ ok THEN [cfg EXCEPT ![NewFolder] = TRUE] ELSE cfg
    /\ UNCHANGED <<platform, yaml, pidfile, daemon, urlfile, tokfile, nodeurl, api_token,
                   magic_folders, frame, capVars, runVars, readyVars, moreVars>>

\* A step made on the parent completes (ok) or fails: stop, start, and the
\* links of "<name> (collective)" and "<name> (personal)" into the rootcap.
ParentStepDone(ok) ==
    /\ mf.pc \in {"p_stop", "p_start", "p_link1", "p_link2"}
    /\ ok \/ mf.pc # "p_stop"
    /\ mf' = IF ~ok THEN CallFailed(mf, mf.pc)
             ELSE CASE mf.pc = "p_stop" -> Issue(mf, "p_start", "P", "start", "")
                    [] mf.pc = "p_start" -> Issue(mf, "p_link1", "P", "link", "collective")
                    [] mf.pc = "p_link1" -> Issue(mf, "p_link2", "P", "link", "personal")
                    [] OTHER -> [mf EXCEPT !.pc = "done"]
    /\ UNCHANGED <<capVars, lifeVars, runVars, readyVars, moreVars>>

\* The add-alias command, which nothing waits for, ends.
AddAliasDone(ok) ==
    /\ mf.alias = "running"
    /\ mf' = [mf EXCEPT !.alias = IF ok THEN "ok" ELSE "failed"]
    /\ UNCHANGED <<capVars, lifeVars, runVars, readyVars, moreVars>>

\* create_magic_folder is not called.
FolderIdle == mf = NewCall

\* ----------------------------------------------------------------------
\* Operations on a folder name: magic_folder_invite, magic_folder_uninvite,
\* get_magic_folder_status, remove_magic_folder
\* ----------------------------------------------------------------------
\* What "magic-folder invite" prints: the invite code and a newline.
InviteOutput == <<"code", "\n">>

\* What command() returns for a process that printed `output` and exited
\* normally: the output as it is on the streaming launcher
\* (CommandProtocol.processEnded), str(output.getvalue()).strip() on a frozen
\* win32 build (_win32_popen).
CommandResultText(plat, frozen, py, output) ==
    IF plat = "win32" /\ frozen
    THEN Strip(PyStr(py, output))
    ELSE output

\* get_magic_folder_client(name): the 'client' of the entry registered for
\* the name, if any.
get_magic_folder_client(name) ==
    IF magic_folders[name].present THEN magic_folders[name].client ELSE NoClient

\* "S" for the subclient, "P" for the parent Gateway.
GatewayOf(client) == IF client # NoClient THEN "S" ELSE "P"

NewOp ==
    [pc |-> "idle",       \* idle, inv_cmd, un_post, st_post, rm_leave, rm_leave_n,
                          \* rm_stop, done, failed
     op |-> "none",       \* invite, uninvite, status, remove
     client |-> NoClient, \* what get_magic_folder_client / .get('client') gave
     owned |-> FALSE,     \* the name was registered with a subclient at the call
     registered |-> FALSE, \* the name was registered at the call
     dirs |-> {},         \* the nested node directories at the call
     procs |-> {},        \* the node directories whose daemon ran at the call
     frozen |-> FALSE,
     py |-> 2,
     log |-> <<>>,        \* commands and requests issued, in order
     result |-> <<>>,     \* what the call returned
     why |-> "none"]      \* the exception that ended the call

OpBegin(op, frozen, py, client) ==
    [NewOp EXCEPT !.op = op, !.frozen = frozen, !.py = py, !.client = client,
                  !.owned = (get_magic_folder_client(NewFolder) # NoClient),
                  !.registered = magic_folders[NewFolder].present,
                  !.dirs = {f \in Folders : cfg[f]},
                  !.procs = {n \in Nodes : daemon[n] # 0}]

OpIssue(c, pc, on, op, arg) == [c EXCEPT !.pc = pc, !.log = Append(@, Ev(on, op, arg))]

\* magic_folder_invite(name, nickname) up to its yield.
InviteCall(frozen, py) ==
    /\ fop.pc = "idle"
    /\ LET client == get_magic_folder_client(NewFolder)
       IN  fop' = OpIssue(OpBegin("invite", frozen, py, client), "inv_cmd",
                          GatewayOf(client), "magic-folder invite",
                          IF client # NoClient THEN "magic:" ELSE "-n name name:")
    /\ UNCHANGED <<capVars, lifeVars, runVars, readyVars, mf, ld, gj, al, lastVars>>

\* The invite command ends: returnValue(code.strip()), or the
\* TahoeCommandError leaves the call.
InviteDone(ok) ==
    /\ fop.pc = "inv_cmd"
    /\ fop' = IF ok
              THEN [fop EXCEPT !.pc = "done",
                       !.result = Strip(CommandResultText(platform, fop.frozen, fop.py,
                                                          InviteOutput))]
              ELSE [fop EXCEPT !.pc = "failed", !.why = "TahoeCommandError"]
    /\ UNCHANGED <<capVars, lifeVars, runVars, readyVars, mf, ld, gj, al, lastVars>>

\* magic_folder_uninvite(name, nickname): get_alias on the owning Gateway,
\* then its unlink(): acquire that Gateway's lock (free: no other call runs)
\* and post the request.
UninviteCall ==
    /\ fop.pc = "idle"
    /\ LET client == get_magic_folder_client(NewFolder)
           on == GatewayOf(client)
           c1 == OpIssue(OpBegin("uninvite", FALSE, 2, client), "un_post", on, "get_alias",
                         IF client # NoClient THEN "magic" ELSE "name")
           c2 == OpIssue(c1, "un_post", on, "lock.acquire", "")
       IN  fop' = OpIssue(c2, "un_post", on, "POST unlink", "nickname")
    /\ UNCHANGED <<capVars, lifeVars, runVars, readyVars, mf, ld, gj, al, lastVars>>

\* The unlink request ends: the lock is released in the finally clause, and
\* a status other than 200 raises TahoeWebError.
UninviteResponse(r) ==
    /\ fop.pc = "un_post"
    /\ LET c == OpIssue(fop, "done", GatewayOf(fop.client), "lock.release", "")
       IN  fop' = CASE r = "200" -> c
                    [] r = "500" -> [c EXCEPT !.pc = "failed", !.why = "TahoeWebError"]
                    [] OTHER -> [c EXCEPT !.pc = "failed", !.why = "ConnectError"]
    /\ UNCHANGED <<capVars, lifeVars, runVars, readyVars, mf, ld, gj, al, lastVars>>

\* get_magic_folder_status(name) up to its yield: the request goes to the
\* subclient's URL with its token, or to the parent's with the name.
StatusCall ==
    /\ fop.pc = "idle"
    /\ LET client == get_magic_folder_client(NewFolder)
           obj == IF client # NoClient THEN client ELSE <<0, "P">>
           c == OpBegin("status", FALSE, 2, client)
       IN  fop' = IF nodeurl[obj] = <<>> \/ api_token[obj] = <<>>
                  THEN [c EXCEPT !.pc = "done", !.result = <<"None">>]
                  ELSE OpIssue(c, "st_post", GatewayOf(client), "POST magic_folder",
                               IF client # NoClient THEN "" ELSE "name")
    /\ UNCHANGED <<capVars, lifeVars, runVars, readyVars, mf, ld, gj, al, lastVars>>

\* The status request ends: the decoded JSON for a 200, otherwise nothing.
StatusResponse(r) ==
    /\ fop.pc = "st_post"
    /\ fop' = [fop EXCEPT !.pc = "done",
                          !.result = IF r = "200" THEN <<"json">> ELSE <<"None">>]
    /\ UNCHANGED <<capVars, lifeVars, runVars, readyVars, mf, ld, gj, al, lastVars>>

\* remove_magic_folder(name) up to its first yield: a registered name is
\* deleted from the registry, then "leave" is issued on the parent, without
\* a name when the entry held a client and with -n <name> when it did not.
RemoveCall ==
    /\ fop.pc = "idle"
    /\ LET client == get_magic_folder_client(NewFolder)
           c == OpBegin("remove", FALSE, 2, client)
       IN  IF ~magic_folders[NewFolder].present
           THEN /\ fop' = [c EXCEPT !.pc = "done"]
                /\ UNCHANGED magic_folders
           ELSE /\ fop' = IF client # NoClient
                          THEN OpIssue(c, "rm_leave", "P", "magic-folder leave", "")
                          ELSE OpIssue(c, "rm_leave_n", "P", "magic-folder leave -n", "name")
                /\ magic_folders' = [magic_folders EXCEPT ![NewFolder] =
                       [present |-> FALSE, nodedir |-> FALSE, client |-> NoClient]]
    /\ UNCHANGED <<platform, cfg, yaml, pidfile, daemon, urlfile, tokfile, nodeurl,
                   api_token, frame, capVars, runVars, readyVars, mf, ld, gj, al, lastVars>>

\* The leave command ends.  After it the subclient's stop() is called.
RemoveLeaveDone(ok) ==
    /\ fop.pc \in {"rm_leave", "rm_leave_n"}
    /\ fop' = CASE ~ok -> [fop EXCEPT !.pc = "failed", !.why = "TahoeCommandError"]
                [] fop.pc = "rm_leave_n" -> [fop EXCEPT !.pc = "done"]
                [] OTHER -> OpIssue(fop, "rm_stop", "S", "stop", "")
    /\ UNCHANGED <<capVars, lifeVars, runVars, readyVars, mf, ld, gj, al, lastVars>>

\* Mutant of RemoveTree: the node directory is left in place.
RemoveTreeKept(s) == s

\* shutil.rmtree(client.nodedir, ignore_errors=True): the node directory and
\* the files in it are gone.
RemoveTree(s) ==
    [s EXCEPT !.cfg[NewFolder] = FALSE, !.pidfile[NewFolder] = NoFile,
              !.urlfile[NewFolder] = NoFile, !.tokfile[NewFolder] = NoFile]

\* client.stop() resolves, having ended the subclient's daemon and removed its
\* pid file, and the node directory is deleted; or it fails and the call
\* ends with its exception.
RemoveStopDone(ok) ==
    /\ fop.pc = "rm_stop"
    /\ LET stopped == [cfg |-> cfg, pidfile |-> [pidfile EXCEPT ![NewFolder] = NoFile],
                       urlfile |-> urlfile, tokfile |-> tokfile]
           t == IF ok THEN RemoveTree(stopped) ELSE stopped
       IN  /\ fop' = IF ok THEN OpIssue(fop, "done", "S", "rmtree", "")
                     ELSE [fop EXCEPT !.pc = "failed", !.why = "stop"]
           /\ daemon' = IF ok THEN [daemon EXCEPT ![NewFolder] = 0] ELSE daemon
           /\ cfg' = IF ok THEN t.cfg ELSE cfg
           /\ pidfile' = IF ok THEN t.pidfile ELSE pidfile
           /\ urlfile' = IF ok THEN t.urlfile ELSE urlfile
           /\ tokfile' = IF ok THEN t.tokfile ELSE tokfile
    /\ UNCHANGED <<platform, yaml, nodeurl, api_token, magic_folders, frame, capVars,
                   runVars, readyVars, mf, ld, gj, al, lastVars>>

OpsIdle == fop = NewOp

\* ----------------------------------------------------------------------
\* load_magic_folders(), with the settings of the entries
\* ----------------------------------------------------------------------
MaxLoads == 2        \* load_magic_folders calls on one Gateway

\* The local directories a folder can be configured with.
Dirs == {"d1", "d2"}

\* A registry or table entry: its settings as far as they are told apart.
\* An entry that is present with no setting is the empty dict.
NoNodedir == <<>>
NoEntry == [present |-> FALSE, nodedir |-> NoNodedir, directory |-> "", client |-> FALSE]

\* The nested node directory magic-folders/<name>.
NodedirOf(f) == <<"magic-folders", f>>

\* What magic_folders.yaml can hold for a name: nothing, or the directory of a
\* folder, with or without the node directory of its subclient.
TableEntries(f) ==
    {NoEntry} \cup
    {[present |-> TRUE, nodedir |-> nd, directory |-> d, client |-> FALSE] :
        nd \in {NoNodedir, NodedirOf(f)}, d \in Dirs}

\* What the registry can hold for a name before a load: nothing, the empty
\* dict, an entry of an earlier load whose subclient was started, or an entry
\* that _create_magic_folder_subclient made.
RegistryEntries(f) ==
    {NoEntry,
     [present |-> TRUE, nodedir |-> NoNodedir, directory |-> "", client |-> FALSE]} \cup
    {[present |-> TRUE, nodedir |-> nd, directory |-> d, client |-> TRUE] :
        nd \in {NoNodedir, NodedirOf(f)}, d \in Dirs}

\* The first loop: for key, value in data.items(): self.magic_folders[key] = value
LoadTable(reg, table) ==
    [f \in Folders |-> IF table[f].present THEN table[f] ELSE reg[f]]

\* Mutant of LoadDisk: a nested node directory replaces a registered entry.
LoadDiskOverwrites(reg, disk) ==
    [f \in Folders |->
        IF disk[f] # "none"
        THEN [present |-> TRUE, nodedir |-> NodedirOf(f), directory |-> disk[f],
              client |-> FALSE]
        ELSE reg[f]]

\* The second loop, over get_nodedirs(self.magic_folders_dir): a name that is
\* not in the registry gets its nodedir and the local.directory of its
\* tahoe.cfg.  disk[f] is that directory, or "none" without a node directory.
LoadDisk(reg, disk) ==
    [f \in Folders |->
        IF disk[f] # "none" /\ ~reg[f].present
        THEN [present |-> TRUE, nodedir |-> NodedirOf(f), directory |-> disk[f],
              client |-> FALSE]
        ELSE reg[f]]

NewLoad ==
    [reg |-> [f \in Folders |-> NoEntry],     \* self.magic_folders
     table |-> [f \in Folders |-> NoEntry],   \* private/magic_folders.yaml
     disk |-> [f \in Folders |-> "none"],     \* the nested node directories
     before |-> [f \in Folders |-> NoEntry],  \* the registry before the first load
     first |-> [f \in Folders |-> NoEntry],   \* the registry after the first load
     loads |-> 0]                             \* calls made

\* load_magic_folders() is called.
LoadCall ==
    /\ ld.loads < MaxLoads
    /\ LET reg == LoadDisk(LoadTable(ld.reg, ld.table), ld.disk)
       IN  ld' = [ld EXCEPT !.reg = reg,
                            !.before = IF ld.loads = 0 THEN ld.reg ELSE @,
                            !.first = IF ld.loads = 0 THEN reg ELSE @,
                            !.loads = @ + 1]
    /\ UNCHANGED <<capVars, lifeVars, runVars, readyVars, mf, fop, gj, al, lastVars>>

LoadIdle == ld = NewLoad

\* ----------------------------------------------------------------------
\* Requests to the daemon's web API: the capability operations and the
\* queries built on get_json
\* ----------------------------------------------------------------------
MaxMembers == 3      \* most members of a folder's collective directory

\* Operations that raise TahoeWebError for a status other than 200.
RaisingOps == {"mkdir", "upload", "download", "link", "unlink"}

\* Queries that return when self.nodeurl is not set and catch ConnectError.
GuardedOps == {"get_json", "get_grid_status", "get_connected_servers"}

\* Queries that call get_json on a capability read from a file.
JsonOps == {"get_magic_folder_members", "get_magic_folder_size", "get_magic_folder_info"}

WebOps == RaisingOps \cup GuardedOps \cup JsonOps

\* How the daemon answers a request: a status, or no connection.
Answers == {"200", "404", "500", "ConnectError"}

NewWeb ==
    [pc |-> "idle",      \* idle, request, content, done, failed
     op |-> "none",
     url |-> TRUE,       \* self.nodeurl is set
     cap |-> TRUE,       \* the capability asked about is not None
     stage |-> "none",   \* get_magic_folder_info: "members" or "member"
     left |-> 0,         \* get_magic_folder_info: members still to fetch
     requests |-> 0,     \* requests sent
     answers |-> <<>>,   \* the daemon's answers, in order
     result |-> "none",  \* "None" or "value"
     why |-> "none"]     \* the exception that left the call

WebReturn(c, value) == [c EXCEPT !.pc = "done", !.result = value]
WebRaise(c, why) == [c EXCEPT !.pc = "failed", !.why = why]
WebRequest(c) == [c EXCEPT !.pc = "request", !.requests = @ + 1]

\* get_json(cap) up to its yield.
GetJsonEntry(c) ==
    IF ~c.cap \/ ~c.url THEN [c EXCEPT !.pc = "returned", !.result = "None"]
    ELSE WebRequest(c)

\* Mutant of GetJsonAnswered: a ConnectError leaves get_json.
GetJsonAnsweredUncaught(c, r) ==
    CASE r = "ConnectError" -> WebRaise(c, "ConnectError")
      [] r = "200" -> [c EXCEPT !.pc = "content"]
      [] OTHER -> [c EXCEPT !.pc = "returned", !.result = "None"]

\* get_json after treq.get: ConnectError is caught and nothing returned; a
\* 200 goes on to read the content; any other status falls off the end.
GetJsonAnswered(c, r) ==
    CASE r = "ConnectError" -> [c EXCEPT !.pc = "returned", !.result = "None"]
      [] r = "200" -> [c EXCEPT !.pc = "content"]
      [] OTHER -> [c EXCEPT !.pc = "returned", !.result = "None"]

\* The caller of get_json goes on with what it returned (pc "returned").
\*   get_json itself, members, size: `if content:` and the result
\*   get_magic_folder_info at "members": `if members:` and the loop
\*   get_magic_folder_info at "member": json_data[1]['children'], which raises
\*   TypeError on None; then the next member
AfterGetJson(c, n) ==
    IF c.pc # "returned" THEN c
    ELSE CASE c.op # "get_magic_folder_info" -> WebReturn(c, c.result)
           [] c.stage = "members" ->
                 IF c.result = "None" \/ n = 0
                 THEN WebReturn(c, c.result)
                 ELSE GetJsonEntry([c EXCEPT !.stage = "member", !.left = n, !.cap = TRUE])
           [] c.result = "None" -> WebRaise(c, "TypeError")
           [] c.left > 1 -> GetJsonEntry([c EXCEPT !.left = @ - 1])
           [] OTHER -> WebReturn([c EXCEPT !.left = 0], "value")

\* An operation is called on a Gateway whose node URL is set or not, with a
\* capability or None.  The capability operations are called on a Gateway
\* with a node URL.
WebCall(op, url, cap) ==
    /\ gj.pc = "idle"
    /\ op \in RaisingOps => url /\ cap
    /\ op \in {"get_grid_status", "get_connected_servers"} => cap
    /\ LET c == [NewWeb EXCEPT !.op = op, !.url = url, !.cap = cap,
                     !.stage = IF op = "get_magic_folder_info" THEN "members" ELSE "none"]
       IN  gj' = CASE op \in RaisingOps -> WebRequest(c)
                   [] op \in {"get_grid_status", "get_connected_servers"} ->
                         IF ~url THEN WebReturn(c, "None") ELSE WebRequest(c)
                   [] OTHER -> AfterGetJson(GetJsonEntry(c), 0)
    /\ UNCHANGED <<capVars, lifeVars, runVars, readyVars, mf, fop, ld, al, lastVars>>

\* The daemon answers the request in flight, or the connection fails.
WebAnswer(r) ==
    /\ gj.pc = "request"
    /\ LET c == [gj EXCEPT !.answers = Append(@, r)]
       IN  gj' = CASE gj.op \in RaisingOps ->
                         (CASE r = "200" -> [c EXCEPT !.pc = "content"]
                            [] r = "ConnectError" -> WebRaise(c, "ConnectError")
                            [] OTHER -> WebRaise(c, "TahoeWebError"))
                   [] gj.op \in {"get_grid_status", "get_connected_servers"} ->
                         (CASE r = "200" -> [c EXCEPT !.pc = "content"]
                            [] OTHER -> WebReturn(c, "None"))
                   [] OTHER -> AfterGetJson(GetJsonAnswered(c, r), 0)
    /\ UNCHANGED <<capVars, lifeVars, runVars, readyVars, mf, fop, ld, al, lastVars>>

\* treq.content(resp) of a 200 delivers; n is the number of members the
\* collective directory lists when get_magic_folder_info asked for it.
WebContent(n) ==
    /\ gj.pc = "content"
    /\ n > 0 => gj.op = "get_magic_folder_info" /\ gj.stage = "members"
    /\ gj' = IF gj.op \in RaisingOps \cup {"get_grid_status", "get_connected_servers"}
             THEN WebReturn(gj, "value")
             ELSE AfterGetJson([gj EXCEPT !.pc = "returned", !.result = "value"], n)
    /\ UNCHANGED <<capVars, lifeVars, runVars, readyVars, mf, fop, ld, al, lastVars>>

WebIdle == gj = NewWeb

\* ----------------------------------------------------------------------
\* private/aliases: get_aliases(), get_alias()
\* ----------------------------------------------------------------------
MaxFileLen == 6      \* most characters of the aliases file

AliasChars == {"#", ":", "a", " ", "\n"}

\* The texts of at most n characters.
RECURSIVE TextsUpTo(_)
TextsUpTo(n) ==
    IF n = 0 THEN {<<>>}
    ELSE LET shorter == TextsUpTo(n - 1)
         IN  shorter \cup {Append(t, ch) : t \in {u \in shorter : Len(u) = n - 1},
                                           ch \in AliasChars}

\* The position of the first ':' of a line, or 0.
FirstColon(line) ==
    LET at == {i \in 1..Len(line) : line[i] = ":"}
    IN  IF at = {} THEN 0 ELSE CHOOSE i \in at : \A j \in at : i <= j

\* line.startswith('#')
IsComment(line) == line # <<>> /\ line[1] = "#"

\* aliases[name] = cap: the dict as a set of <<name, cap>> pairs.
DictSet(aliases, name, cap) ==
    {e \in aliases : e[1] # name} \cup {<<name, cap>>}

\* Mutant of ParseLines: a line that does not split ends the parsing.
RECURSIVE ParseLinesAborting(_, _)
ParseLinesAborting(aliases, lines) ==
    IF lines = <<>> THEN aliases
    ELSE LET line == Head(lines)
             i == FirstColon(line)
         IN  IF IsComment(line) THEN ParseLinesAborting(aliases, Tail(lines))
             ELSE IF i = 0 THEN aliases
             ELSE ParseLinesAborting(
                      DictSet(aliases, SubSeq(line, 1, i),
                              Strip(SubSeq(line, i + 1, Len(line)))),
                      Tail(lines))

\* The loop of get_aliases over f.readlines(): a line that starts with '#' is
\* passed over; name, cap = line.split(':', 1) raises ValueError without a
\* ':' and the line is passed over; otherwise aliases[name + ':'] = cap.strip().
RECURSIVE ParseLines(_, _)
ParseLines(aliases, lines) ==
    IF lines = <<>> THEN aliases
    ELSE LET line == Head(lines)
             i == FirstColon(line)
         IN  IF IsComment(line) \/ i = 0 THEN ParseLines(aliases, Tail(lines))
             ELSE ParseLines(
                      DictSet(aliases, SubSeq(line, 1, i),
                              Strip(SubSeq(line, i + 1, Len(line)))),
                      Tail(lines))

\* get_aliases(): the table of a file that can be read.
get_aliases(text) == ParseLines({}, ReadLines(text, TRUE))

\* The names get_alias is asked for.
AliasQueries == {<<"a">>, <<"a", ":">>, <<" ">>, <<":">>, <<>>}

\* get_alias(alias): a ':' is appended to a name without one, and the cap of
\* the entry of that name is returned; nothing without such an entry.  With
\* no aliases file get_aliases() returns None and the AttributeError is caught.
AliasKey(alias) ==
    IF alias # <<>> /\ alias[Len(alias)] = ":" THEN alias ELSE Append(alias, ":")

NewAlias ==
    [file |-> <<>>,       \* the text of private/aliases
     exists |-> TRUE,     \* the file can be opened
     pc |-> "idle",       \* idle, listed (get_aliases returned), asked (get_alias returned)
     isNone |-> FALSE,    \* get_aliases returned None
     table |-> {},        \* the dict get_aliases returned
     query |-> <<>>,      \* the name get_alias was asked for
     found |-> FALSE,     \* get_alias returned a cap
     answer |-> <<>>]     \* the cap

\* get_aliases() is called.
GetAliasesCall ==
    /\ al.pc = "idle"
    /\ al' = IF al.exists
             THEN [al EXCEPT !.pc = "listed", !.table = get_aliases(al.file)]
             ELSE [al EXCEPT !.pc = "listed", !.isNone = TRUE]
    /\ UNCHANGED <<capVars, lifeVars, runVars, readyVars, mf, fop, ld, gj, lastVars>>

\* get_alias(alias) is called.
GetAliasCall(alias) ==
    /\ al.pc = "idle"
    /\ LET table == IF al.exists THEN get_aliases(al.file) ELSE {}
           hits == {e \in table : e[1] = AliasKey(alias)}
       IN  al' = [al EXCEPT !.pc = "asked", !.query = alias,
                     !.isNone = ~al.exists,
                     !.table = table,
                     !.found = (hits # {}),
                     !.answer = IF hits = {} THEN <<>> ELSE (CHOOSE e \in hits : TRUE)[2]]
    /\ UNCHANGED <<capVars, lifeVars, runVars, readyVars, mf, fop, ld, gj, lastVars>>

AliasIdle == al = NewAlias

\* ----------------------------------------------------------------------
\* get_grid_status(): the answer's content and the two parsers
\* ----------------------------------------------------------------------
MaxListed == 3       \* most storage servers a status lists
MaxSpace == 2        \* largest available space a server announces

\* server['connection_status'] as a sequence of words.
Statuses == {<<"Connected", "to", "tcp">>, <<"Trying", "to", "connect">>,
             <<"Not", "Connected">>}

\* A server of the JSON status; its available_space is a number or null.
Servers == [connection_status : Statuses, available_space : {NoneVal} \cup 0..MaxSpace]

\* The sequences over a set of at most n elements.
RECURSIVE SeqsUpTo(_, _)
SeqsUpTo(S, n) ==
    IF n = 0 THEN {<<>>}
    ELSE LET shorter == SeqsUpTo(S, n - 1)
         IN  shorter \cup {Append(q, e) : q \in {r \in shorter : Len(r) = n - 1}, e \in S}

\* What the daemon's welcome page shows: the number after "Connected to", the
\* number before "known storage servers" (NoneVal where the pattern does not
\* match) and the service-available-space cells (NoneVal for "N/A").
Pages ==
    [connected : {NoneVal} \cup 0..1, known : {NoneVal, MaxListed},
     cells : SeqsUpTo({NoneVal, 1}, 2)]

\* The content of a 200 answer: JSON with or without 'servers', or a page
\* that json.loads rejects.
Contents ==
    {[json |-> TRUE, keyed |-> TRUE, servers |-> s, page |-> <<>>] :
        s \in SeqsUpTo(Servers, MaxListed)}
    \cup {[json |-> TRUE, keyed |-> FALSE, servers |-> <<>>, page |-> <<>>]}
    \cup {[json |-> FALSE, keyed |-> FALSE, servers |-> <<>>, page |-> <<g>>] : g \in Pages}

\* The loop over the service-available-space cells of _parse_welcome_page:
\* a cell that dehumanized_size rejects is passed over.
RECURSIVE PageSpace(_, _)
PageSpace(cells, available_space) ==
    IF cells = <<>> THEN available_space
    ELSE PageSpace(Tail(cells),
                   IF Head(cells) = NoneVal THEN available_space
                   ELSE available_space + Head(cells))

\* _parse_welcome_page(html)
parse_welcome_page(g) ==
    <<IF g.connected = NoneVal THEN 0 ELSE g.connected,
      IF g.known = NoneVal THEN 0 ELSE g.known,
      PageSpace(g.cells, 0)>>

\* str.startswith('Connected')
StartsConnected(status) == status # <<>> /\ status[1] = "Connected"

\* Mutant of ServersLoop: the space of every listed server is added.
RECURSIVE ServersLoopAllSpace(_, _, _)
ServersLoopAllSpace(servers, servers_connected, available_space) ==
    IF servers = <<>> THEN <<servers_connected, available_space>>
    ELSE LET server == Head(servers)
             space == IF Truthy(server.available_space)
                      THEN available_space + server.available_space ELSE available_space
         IN  ServersLoopAllSpace(Tail(servers),
                 IF StartsConnected(server.connection_status)
                 THEN servers_connected + 1 ELSE servers_connected,
                 space)

\* The loop of get_grid_status over content['servers'].
RECURSIVE ServersLoop(_, _, _)
ServersLoop(servers, servers_connected, available_space) ==
    IF servers = <<>> THEN <<servers_connected, available_space>>
    ELSE LET server == Head(servers)
         IN  IF StartsConnected(server.connection_status)
             THEN ServersLoop(Tail(servers), servers_connected + 1,
                      IF Truthy(server.available_space)
                      THEN available_space + server.available_space
                      ELSE available_space)
             ELSE ServersLoop(Tail(servers), servers_connected, available_space)

NewGrid ==
    [pc |-> "idle",       \* idle, except (json.loads raised), done
     content |-> [json |-> TRUE, keyed |-> FALSE, servers |-> <<>>, page |-> <<>>],
     parser |-> "none",   \* the parser that made the result: json, page
     tried |-> <<>>,      \* the parsers tried, in order
     result |-> <<>>]     \* (servers_connected, servers_known, available_space)

\* get_grid_status() after a 200 answer: json.loads(content); when it raises
\* JSONDecodeError the handler is entered; otherwise the result is the count
\* and the sum over content['servers'], zeros if there is no such key.
GridJsonLoads ==
    /\ gs.pc = "idle"
    /\ LET c == gs.content
           loop == ServersLoop(c.servers, 0, 0)
       IN  gs' = IF ~c.json
                 THEN [gs EXCEPT !.pc = "except", !.tried = Append(@, "json")]
                 ELSE [gs EXCEPT !.pc = "done", !.tried = Append(@, "json"),
                                 !.parser = "json",
                                 !.result = IF c.keyed
                                            THEN <<loop[1], Len(c.servers), loop[2]>>
                                            ELSE <<0, 0, 0>>]
    /\ UNCHANGED <<capVars, lifeVars, runVars, readyVars, mf, fop, ld, gj, al, acc, ov>>

\* except json.decoder.JSONDecodeError: the result is _parse_welcome_page's.
GridParseWelcomePage ==
    /\ gs.pc = "except"
    /\ gs' = [gs EXCEPT !.pc = "done", !.tried = Append(@, "page"), !.parser = "page",
                        !.result = parse_welcome_page(gs.content.page[1])]
    /\ UNCHANGED <<capVars, lifeVars, runVars, readyVars, mf, fop, ld, gj, al, acc, ov>>

GridIdle == gs = NewGrid


\* ----------------------------------------------------------------------
\* The accessors of the registry: self.magic_folders is a defaultdict(dict)
\* ----------------------------------------------------------------------
MaxAccessorCalls == 2   \* accessor calls made on one Gateway

\* The keys of the registry: the folder names and 'default'.
RegistryNames == Folders \cup {"default"}

AbsentName == [present |-> FALSE, client |-> FALSE, keys |-> {}]

\* self.magic_folders[name][key] = value: the defaultdict makes the entry of
\* a name it does not hold.
SetItem(reg, name, key) ==
    [reg EXCEPT ![name] = [present |-> TRUE, client |-> @.client, keys |-> @.keys \cup {key}]]

\* get_collective_dircap(name): the cached value of a registered name, or the
\* capability read from the file of the subclient, stored under the name, or
\* of the parent, stored under 'default'.
get_collective_dircap(reg, name) ==
    IF reg[name].present /\ "collective_dircap" \in reg[name].keys THEN reg
    ELSE SetItem(reg, IF reg[name].present /\ reg[name].client THEN name ELSE "default",
                 "collective_dircap")

\* get_magic_folder_dircap(name): as above, stored only `if cap:`.
get_magic_folder_dircap(reg, name, cap) ==
    IF reg[name].present /\ "upload_dircap" \in reg[name].keys THEN reg
    ELSE IF ~cap THEN reg
    ELSE SetItem(reg, IF reg[name].present /\ reg[name].client THEN name ELSE "default",
                 "upload_dircap")

\* get_magic_folder_directory(name): the cached value of a registered name,
\* or local.directory of the owning Gateway's tahoe.cfg, stored under the name.
get_magic_folder_directory(reg, name) ==
    IF reg[name].present /\ "directory" \in reg[name].keys THEN reg
    ELSE SetItem(reg, name, "directory")

\* get_magic_folder_members(name): get_json of get_collective_dircap(name);
\* with content, get_magic_folder_dircap(name), and self.magic_folders[name]
\* ['member'] for the member whose fingerprint is this Gateway's.
get_magic_folder_members(reg, name, content, cap, mine) ==
    LET reg1 == get_collective_dircap(reg, name)
        reg2 == get_magic_folder_dircap(reg1, name, cap)
        known == reg1[name].present /\ "upload_dircap" \in reg1[name].keys
    IN  IF ~content THEN reg1
        ELSE IF mine /\ (cap \/ known) THEN SetItem(reg2, name, "member")
        ELSE reg2

NewAcc ==
    [reg |-> [n \in RegistryNames |-> AbsentName],   \* self.magic_folders
     names |-> {},      \* the names registered before the accessors were called
     calls |-> 0,       \* accessor calls made
     last |-> "none"]   \* the accessor called last

\* One of the accessors is called with a folder name, registered or not.
AccessorCall(accessor, name, content, cap, mine) ==
    /\ acc.calls < MaxAccessorCalls
    /\ accessor = "get_magic_folder_members" \/ (~content /\ ~mine)
    /\ accessor \in {"get_magic_folder_dircap", "get_magic_folder_members"} \/ ~cap
    /\ acc' = [acc EXCEPT
                 !.calls = @ + 1, !.last = accessor,
                 !.reg = CASE accessor = "get_magic_folder_client" -> @
                           [] accessor = "get_collective_dircap" ->
                                 get_collective_dircap(@, name)
                           [] accessor = "get_magic_folder_dircap" ->
                                 get_magic_folder_dircap(@, name, cap)
                           [] accessor = "get_magic_folder_directory" ->
                                 get_magic_folder_directory(@, name)
                           [] OTHER -> get_magic_folder_members(@, name, content, cap, mine)]
    /\ UNCHANGED <<capVars, lifeVars, runVars, readyVars, mf, fop, ld, gj, al, gs, ov>>

AccIdle == acc = NewAcc

\* ----------------------------------------------------------------------
\* Overlapping start() and stop() calls on one Gateway
\* ----------------------------------------------------------------------
MaxOverlap == 3   \* start() and stop() calls made on the Gateway

OverlapCalls == 1..MaxOverlap

NewOverlap ==
    [platform |-> "linux",   \* sys.platform
     pidfile |-> FALSE,      \* os.path.isfile(self.pidfile)
     daemon |-> FALSE,       \* a daemon of the node directory is up
     launched |-> 0,         \* "run" processes spawned
     call |-> [c \in OverlapCalls |-> [op |-> "none", pc |-> "idle"]]]

\* start(): with a pid file stop() first, which on win32 kills the process and
\* removes the file before it returns and elsewhere issues the "stop" command;
\* then command(['run'], 'client running') spawns the process.
OvStart(c) ==
    /\ ov.call[c].pc = "idle"
    /\ ov' = IF ov.pidfile /\ ov.platform # "win32"
             THEN [ov EXCEPT !.call[c] = [op |-> "start", pc |-> "stop_cmd"]]
             ELSE [ov EXCEPT !.call[c] = [op |-> "start", pc |-> "run_cmd"],
                             !.launched = @ + 1,
                             !.pidfile = FALSE,
                             !.daemon = IF ov.pidfile THEN FALSE ELSE @]
    /\ UNCHANGED <<capVars, lifeVars, runVars, readyVars, mf, fop, ld, gj, al, gs, acc>>

\* stop(): returns at once without a pid file; on win32 kills the process and
\* removes the file; elsewhere issues the "stop" command.
OvStop(c) ==
    /\ ov.call[c].pc = "idle"
    /\ ov' = IF ~ov.pidfile
             THEN [ov EXCEPT !.call[c] = [op |-> "stop", pc |-> "done"]]
             ELSE IF ov.platform = "win32"
             THEN [ov EXCEPT !.call[c] = [op |-> "stop", pc |-> "done"],
                             !.pidfile = FALSE, !.daemon = FALSE]
             ELSE [ov EXCEPT !.call[c] = [op |-> "stop", pc |-> "stop_cmd"]]
    /\ UNCHANGED <<capVars, lifeVars, runVars, readyVars, mf, fop, ld, gj, al, gs, acc>>

\* The "stop" command ends, with success or with the TahoeCommandError that
\* stop() swallows: the daemon of the pid file is gone, and start() goes on
\* to spawn "run".
OvStopCommandEnds(c) ==
    /\ ov.call[c].pc = "stop_cmd"
    /\ ov' = IF ov.call[c].op = "start"
             THEN [ov EXCEPT !.call[c].pc = "run_cmd", !.launched = @ + 1,
                             !.pidfile = FALSE, !.daemon = FALSE]
             ELSE [ov EXCEPT !.call[c].pc = "done", !.pidfile = FALSE, !.daemon = FALSE]
    /\ UNCHANGED <<capVars, lifeVars, runVars, readyVars, mf, fop, ld, gj, al, gs, acc>>

\* The spawned daemon writes twistd.pid (elsewhere than on win32, where
\* start() writes it after the command).
OvDaemonWritesPid(c) ==
    /\ ov.call[c].pc = "run_cmd"
    /\ ov.platform # "win32"
    /\ ~ov.pidfile
    /\ ov' = [ov EXCEPT !.pidfile = TRUE]
    /\ UNCHANGED <<capVars, lifeVars, runVars, readyVars, mf, fop, ld, gj, al, gs, acc>>

\* The "run" command sees 'client running': the daemon is up and start()
\* goes on; on win32 it writes the pid file if str(pid) is a number.
OvRunTriggered(c, digits) ==
    /\ ov.call[c].pc = "run_cmd"
    /\ ov.platform = "win32" \/ (ov.pidfile /\ ~digits)
    /\ ov' = [ov EXCEPT !.call[c].pc = "done", !.daemon = TRUE,
                        !.pidfile = IF ov.platform = "win32" THEN (@ \/ digits) ELSE @]
    /\ UNCHANGED <<capVars, lifeVars, runVars, readyVars, mf, fop, ld, gj, al, gs, acc>>

\* The "run" process ends before the trigger: start() fails with
\* TahoeCommandError.
OvRunEnds(c) ==
    /\ ov.call[c].pc = "run_cmd"
    /\ ov' = [ov EXCEPT !.call[c].pc = "failed"]
    /\ UNCHANGED <<capVars, lifeVars, runVars, readyVars, mf, fop, ld, gj, al, gs, acc>>

OverlapIdle == ov = NewOverlap

LastIdle == GridIdle /\ AccIdle /\ OverlapIdle

MoreIdle == OpsIdle /\ LoadIdle /\ WebIdle /\ AliasIdle /\ LastIdle

ExtIdle == RunIdle /\ ReadyIdle /\ FolderIdle /\ MoreIdle

\* ------------------------------------------------------------ LinkSpec
LinkInit ==
    /\ lock = FreeLock
    /\ linkPc = [c \in LinkCalls |-> "idle"]
    /\ linkOp = [c \in LinkCalls |-> "none"]
    /\ linkResp = [c \in LinkCalls |-> "none"]
    /\ linkWaited = [c \in LinkCalls |-> FALSE]

\* The rootcap file is absent (a new Gateway) or holds the capability an
\* earlier session's create_rootcap wrote; nothing is cached yet.
RootInit ==
    /\ rootPc = [c \in RootCalls |-> "idle"]
    /\ rootReq = [c \in RootCalls |-> 0]
    /\ rootRet = [c \in RootCalls |-> NoCap]
    /\ rootcap = NoCap
    /\ \E earlier \in {0, 1} : rootcapFile = earlier /\ mkdirCount = earlier
    /\ rootWrites = <<>>

\* ------------------------------------------------------------ Init, Next
\* What a node directory can look like when the session begins:
\*   new      never run: no pid file, no node.url, no token
\*   running  a daemon runs and twistd.pid names it
\*   crashed  the daemon died and left its twistd.pid
\*   stopped  no daemon and no pid file; node.url and the token are left over
Conds == {"new", "running", "crashed", "stopped"}

\* The pid of the daemon a node directory last ran before the session.
OldPid(n) == CASE n = "P" -> FirstPid [] n = "f1" -> FirstPid + 1 [] OTHER -> FirstPid + 2

\* The folders known when the session begins:
\*   none    no such folder
\*   native  listed in magic_folders.yaml without a nodedir
\*   yaml    listed in magic_folders.yaml with its nodedir, which exists
\*   disk    a nested node directory that the table does not list
\*   prov    as disk, and provisioned by _create_magic_folder_subclient
\*           earlier in this session: registered with its client, no nodedir
Kinds == {"none", "native", "yaml", "disk", "prov"}

HasDir(kind) == kind \in {"yaml", "disk", "prov"}

\* A session is fresh (the Tahoe object was just constructed: nothing is
\* loaded) or under way (an earlier start() loaded the registry and started
\* the subclients; folders may have been provisioned since).
LifeInitOf(plat, underway, kind, cond) ==
    /\ platform = plat
    /\ cfg = [f \in Folders |-> HasDir(kind[f])]
    /\ yaml = [f \in Folders |->
                 CASE kind[f] = "native" -> "native"
                   [] kind[f] = "yaml" -> "nodedir"
                   [] OTHER -> "absent"]
    /\ pidfile = [n \in Nodes |->
                    IF cond[n] \in {"running", "crashed"} THEN PidStr(OldPid(n)) ELSE NoFile]
    /\ daemon = [n \in Nodes |-> IF cond[n] = "running" THEN OldPid(n) ELSE 0]
    /\ urlfile = [n \in Nodes |-> IF cond[n] = "new" THEN NoFile ELSE UrlText]
    /\ tokfile = [n \in Nodes |-> IF cond[n] = "new" THEN NoFile ELSE TokenText]
    /\ nodeurl = [o \in Objs |->
                    IF underway /\ o[1] = 0 /\ (o[2] = "P" \/ HasDir(kind[o[2]]))
                    THEN Strip(UrlText) ELSE <<>>]
    /\ api_token = [o \in Objs |->
                    IF underway /\ o[1] = 0 /\ (o[2] = "P" \/ HasDir(kind[o[2]]))
                    THEN Strip(TokenText) ELSE <<>>]
    /\ magic_folders = [f \in Folders |->
                    IF underway /\ kind[f] # "none"
                    THEN [present |-> TRUE,
                          nodedir |-> kind[f] \in {"yaml", "disk"},
                          client |-> IF HasDir(kind[f]) THEN <<0, f>> ELSE NoClient]
                    ELSE [present |-> FALSE, nodedir |-> FALSE, client |-> NoClient]]
    /\ frame = [x \in Frames |-> FreshFrame("none")]

\* Folder names are interchangeable: of two initial states that differ only
\* in which folder is which, one is kept.
KindRank(k) ==
    CASE k = "none" -> 0 [] k = "native" -> 1 [] k = "yaml" -> 2 [] k = "disk" -> 3
      [] OTHER -> 4
CondRank(c) ==
    CASE c = "new" -> 0 [] c = "running" -> 1 [] c = "crashed" -> 2 [] OTHER -> 3

LifeInit ==
    \E plat \in {"win32", "linux"}, kind \in [Folders -> Kinds], cond \in [Nodes -> Conds] :
        LET underway == \E f \in Folders : kind[f] = "prov"
        IN  /\ \A f \in Folders : ~HasDir(kind[f]) => cond[f] = "new"
            \* folders are made by a parent that has run; a folder that is
            \* in the table or was provisioned has run too
            /\ cond["P"] = "new" => \A f \in Folders : kind[f] = "none"
            /\ \A f \in Folders : kind[f] \in {"yaml", "prov"} => cond[f] # "new"
            /\ 4 * KindRank(kind["f1"]) + CondRank(cond["f1"])
                  <= 4 * KindRank(kind["f2"]) + CondRank(cond["f2"])
            /\ LifeInitOf(plat, underway, kind, cond)

\* The lifecycle state of the capability specifications: a running parent
\* Gateway without folders, on which neither start() nor stop() is called.
LifeIdle ==
    LifeInitOf("linux", TRUE, [f \in Folders |-> "none"],
               [n \in Nodes |-> IF n = "P" THEN "running" ELSE "new"])

Init == LifeInit /\ LinkInit /\ RootInit /\ rootcapFile = NoCap /\ ExtIdle

Next ==
    \/ \E t \in Tops : StartCall(t)
    \/ \E t \in Tops : StopCall(t)
    \/ \E x \in Frames : StopCmdDone(x)
    \/ \E x \in Frames, outcome \in {"trigger", "clean", "failed"} : RunDone(x, outcome)

Spec == Init /\ [][Next]_vars

LinkNext ==
    \/ \E c \in LinkCalls, op \in {"link", "unlink"} : LinkCall(c, op)
    \/ \E c \in LinkCalls, outcome \in {"200", "500", "connfail"} :
          LinkResponse(c, outcome)
    \/ \E c \in LinkCalls : LinkContent(c)

RootNext ==
    \/ \E c \in RootCalls : CreateRootcapCall(c)
    \/ \E c \in RootCalls, outcome \in {"200", "500", "connfail"} :
          MkdirResponse(c, outcome)
    \/ \E c \in RootCalls : MkdirContent(c)
    \/ GetRootcap

\* A Gateway on which only link and unlink are called.
LinkSpecInit == LinkInit /\ RootInit /\ rootcapFile = NoCap /\ LifeIdle /\ ExtIdle

LinkSpec == LinkSpecInit /\ [][LinkNext]_vars

\* Every HTTP request the daemon is sent is eventually answered or fails, and
\* the reactor eventually delivers a body it is reading.
LinkFairSpec ==
    /\ LinkSpec
    /\ \A c \in LinkCalls :
          /\ WF_vars(\E outcome \in {"200", "500", "connfail"} : LinkResponse(c, outcome))
          /\ WF_vars(LinkContent(c))

\* A Gateway on which only create_rootcap and get_rootcap are called.
RootSpecInit == LinkInit /\ RootInit /\ LifeIdle /\ ExtIdle

RootSpec == RootSpecInit /\ [][RootNext]_vars

RunNext ==
    \/ \E data \in Chunks : RunChunk(data)
    \/ \E status \in {"clean", "abnormal"} : RunExit(status)
    \/ RunEof
    \/ PopenPoll

\* One command() call, from the spawn of its process on.
RunSpecInit ==
    LinkInit /\ RootInit /\ rootcapFile = NoCap /\ LifeIdle /\ RunInit /\ ReadyIdle
        /\ FolderIdle /\ MoreIdle

RunSpec == RunSpecInit /\ [][RunNext]_vars

\* A Gateway that was never started (no nodeurl, no threshold) or one that
\* start() has set up: self.shares_happy is the number in tahoe.cfg.
ReadyInit ==
    /\ \E underway \in BOOLEAN :
          /\ LifeInitOf("linux", underway, [f \in Folders |-> "none"],
                        [n \in Nodes |-> IF n = "P" /\ underway THEN "running" ELSE "new"])
          /\ shares_happy \in (IF underway THEN 0..MaxHappy ELSE {NoneVal})
    /\ web \in Webs
    /\ ready = NewReady

ReadyNext ==
    \/ AwaitReadyCall
    \/ ReadyGetDone
    \/ ReadyContent
    \/ ReadySleepDone
    \/ ReadyAbandon
    \/ \E w \in Webs : WebChanges(w)

\* One await_ready() call on the Gateway.
ReadySpecInit ==
    LinkInit /\ RootInit /\ rootcapFile = NoCap /\ RunIdle /\ ReadyInit /\ FolderIdle
        /\ MoreIdle

ReadySpec == ReadySpecInit /\ [][ReadyNext]_vars

\* The parent Gateway runs; a nested node directory of the folder's name may
\* be left from an earlier folder.
FolderInit ==
    /\ \E plat \in {"win32", "linux"}, kind \in {"none", "disk"} :
          LifeInitOf(plat, TRUE, [f \in Folders |-> IF f = NewFolder THEN kind ELSE "none"],
                     [n \in Nodes |-> CASE n = "P" -> "running"
                                        [] n = NewFolder /\ kind = "disk" -> "running"
                                        [] OTHER -> "new"])
    /\ mf = NewCall

FolderNext ==
    \/ \E join \in {"none"} \cup CollectiveCaps, frozen \in BOOLEAN, py \in {2, 3} :
          CreateMagicFolderCall(join, frozen, py)
    \/ \E outcome \in {"ok", "unsupported", "error"} : NativeCreateDone(outcome)
    \/ \E ok \in BOOLEAN : SubclientStepDone(ok)
    \/ \E ok \in BOOLEAN : ParentStepDone(ok)
    \/ \E ok \in BOOLEAN : AddAliasDone(ok)

\* One create_magic_folder() call on the Gateway.
FolderSpecInit ==
    LinkInit /\ RootInit /\ rootcapFile = NoCap /\ RunIdle /\ ReadyIdle /\ FolderInit
        /\ MoreIdle

FolderSpec == FolderSpecInit /\ [][FolderNext]_vars

\* The folder name is unknown, native, or owned by a subclient that runs;
\* another folder with a subclient may exist.
OpsInit ==
    /\ \E plat \in {"win32", "linux"}, kind \in {"none", "native", "yaml", "prov"},
          other \in {"none", "prov"} :
          LifeInitOf(plat, TRUE, [f \in Folders |-> IF f = NewFolder THEN kind ELSE other],
                     [n \in Nodes |-> CASE n = "P" -> "running"
                                        [] n = NewFolder /\ HasDir(kind) -> "running"
                                        [] n # NewFolder /\ HasDir(other) -> "running"
                                        [] OTHER -> "new"])
    /\ fop = NewOp

OpsNext ==
    \/ \E frozen \in BOOLEAN, py \in {2, 3} : InviteCall(frozen, py)
    \/ \E ok \in BOOLEAN : InviteDone(ok)
    \/ UninviteCall
    \/ \E r \in {"200", "500", "ConnectError"} : UninviteResponse(r)
    \/ StatusCall
    \/ \E r \in {"200", "500", "ConnectError"} : StatusResponse(r)
    \/ RemoveCall
    \/ \E ok \in BOOLEAN : RemoveLeaveDone(ok)
    \/ \E ok \in BOOLEAN : RemoveStopDone(ok)

\* One operation on a folder name of a Gateway that runs.
OpsSpecInit ==
    LinkInit /\ RootInit /\ rootcapFile = NoCap /\ RunIdle /\ ReadyIdle /\ FolderIdle
        /\ OpsInit /\ LoadIdle /\ WebIdle /\ AliasIdle /\ LastIdle

OpsSpec == OpsSpecInit /\ [][OpsNext]_vars

\* A registry, a persisted table and nested node directories.
LoadInit ==
    \E reg \in [Folders -> UNION {RegistryEntries(f) : f \in Folders}],
       table \in [Folders -> UNION {TableEntries(f) : f \in Folders}],
       disk \in [Folders -> {"none"} \cup Dirs] :
        /\ \A f \in Folders : reg[f] \in RegistryEntries(f) /\ table[f] \in TableEntries(f)
        /\ ld = [NewLoad EXCEPT !.reg = reg, !.table = table, !.disk = disk, !.before = reg]

LoadNext == LoadCall

\* load_magic_folders() called up to MaxLoads times on one Gateway.
LoadSpecInit ==
    LinkInit /\ RootInit /\ rootcapFile = NoCap /\ LifeIdle /\ RunIdle /\ ReadyIdle
        /\ FolderIdle /\ OpsIdle /\ LoadInit /\ WebIdle /\ AliasIdle /\ LastIdle

LoadSpec == LoadSpecInit /\ [][LoadNext]_vars

WebNext ==
    \/ \E op \in WebOps, url \in BOOLEAN, cap \in BOOLEAN : WebCall(op, url, cap)
    \/ \E r \in Answers : WebAnswer(r)
    \/ \E n \in 0..MaxMembers : WebContent(n)

\* One operation on the web API of a daemon that may answer, refuse or be
\* unreachable at each request.
WebSpecInit ==
    LinkInit /\ RootInit /\ rootcapFile = NoCap /\ LifeIdle /\ RunIdle /\ ReadyIdle
        /\ FolderIdle /\ OpsIdle /\ LoadIdle /\ WebIdle /\ AliasIdle /\ LastIdle

WebSpec == WebSpecInit /\ [][WebNext]_vars

\* An aliases file of at most MaxFileLen characters, or none.
AliasInit ==
    \E text \in TextsUpTo(MaxFileLen), exists \in BOOLEAN :
        /\ ~exists => text = <<>>
        /\ al = [NewAlias EXCEPT !.file = text, !.exists = exists]

AliasNext ==
    \/ GetAliasesCall
    \/ \E alias \in AliasQueries : GetAliasCall(alias)

\* One get_aliases() or get_alias() call.
AliasSpecInit ==
    LinkInit /\ RootInit /\ rootcapFile = NoCap /\ LifeIdle /\ RunIdle /\ ReadyIdle
        /\ FolderIdle /\ OpsIdle /\ LoadIdle /\ WebIdle /\ AliasInit /\ LastIdle

AliasSpec == AliasSpecInit /\ [][AliasNext]_vars

\* A 200 answer to get_grid_status with some content.
GridInit == \E c \in Contents : gs = [NewGrid EXCEPT !.content = c]

GridNext == GridJsonLoads \/ GridParseWelcomePage

GridSpecInit ==
    LinkInit /\ RootInit /\ rootcapFile = NoCap /\ LifeIdle /\ RunIdle /\ ReadyIdle
        /\ FolderIdle /\ OpsIdle /\ LoadIdle /\ WebIdle /\ AliasIdle
        /\ GridInit /\ AccIdle /\ OverlapIdle

GridSpec == GridSpecInit /\ [][GridNext]_vars


Accessors == {"get_magic_folder_client", "get_collective_dircap", "get_magic_folder_dircap",
              "get_magic_folder_directory", "get_magic_folder_members"}

\* A registry as load_magic_folders and create_magic_folder leave it: each
\* folder name is absent, native or owned by a subclient, with its directory.
AccInit ==
    \E kind \in [Folders -> {"absent", "native", "owned"}] :
        LET reg == [n \in RegistryNames |->
                      IF n \in Folders /\ kind[n] # "absent"
                      THEN [present |-> TRUE, client |-> (kind[n] = "owned"),
                            keys |-> {"directory"}]
                      ELSE AbsentName]
        IN  acc = [NewAcc EXCEPT !.reg = reg, !.names = {n \in Folders : kind[n] # "absent"}]

AccNext ==
    \E accessor \in Accessors, name \in Folders, content \in BOOLEAN, cap \in BOOLEAN,
       mine \in BOOLEAN : AccessorCall(accessor, name, content, cap, mine)

\* Accessor calls on one Gateway, nothing else.
AccSpecInit ==
    LinkInit /\ RootInit /\ rootcapFile = NoCap /\ LifeIdle /\ RunIdle /\ ReadyIdle
        /\ FolderIdle /\ OpsIdle /\ LoadIdle /\ WebIdle /\ AliasIdle
        /\ GridIdle /\ AccInit /\ OverlapIdle

AccSpec == AccSpecInit /\ [][AccNext]_vars

\* A Gateway with or without a running daemon and its pid file.
OverlapInit ==
    \E plat \in {"linux", "win32"}, up \in BOOLEAN :
        ov = [NewOverlap EXCEPT !.platform = plat, !.pidfile = up, !.daemon = up]

OverlapNext ==
    \E c \in OverlapCalls :
        \/ OvStart(c)
        \/ OvStop(c)
        \/ OvStopCommandEnds(c)
        \/ OvDaemonWritesPid(c)
        \/ \E digits \in BOOLEAN : OvRunTriggered(c, digits)
        \/ OvRunEnds(c)

\* start() and stop() calls on one Gateway, nothing else.
OverlapSpecInit ==
    LinkInit /\ RootInit /\ rootcapFile = NoCap /\ LifeIdle /\ RunIdle /\ ReadyIdle
        /\ FolderIdle /\ OpsIdle /\ LoadIdle /\ WebIdle /\ AliasIdle
        /\ GridIdle /\ AccIdle /\ OverlapInit

OverlapSpec == OverlapSpecInit /\ [][OverlapNext]_vars


\* ======================================================================
\* Claims
\* ======================================================================

\* C1: at most one link/unlink HTTP request of a Gateway is in flight at any
\* time, and a request is in flight only while its call holds the lock.
C1_OneRequestInFlight ==
    /\ Cardinality({c \in LinkCalls : linkPc[c] = "request"}) <= 1
    /\ \A c \in LinkCalls :
          linkPc[c] = "request" => lock.locked /\ lock.holder = c

\* A link request is in flight while an unlink call waits for the lock.
C1_Witness ==
    \E c, d \in LinkCalls :
        /\ linkPc[c] = "request" /\ linkOp[c] = "link"
        /\ linkPc[d] = "waiting" /\ linkOp[d] = "unlink"

\* C2: a link/unlink call that has got its answer (200, another status, or a
\* failed request) no longer holds the lock, the lock is free when no call
\* waits or has a request in flight, and every call waiting for the lock is
\* eventually granted it.
C2_LockReleased ==
    /\ [](\A c \in LinkCalls :
            linkPc[c] \in LinkEnded \cup {"content"} => ~(lock.locked /\ lock.holder = c))
    /\ []((\A c \in LinkCalls : linkPc[c] \notin {"waiting", "request"}) => lock = FreeLock)
    /\ \A c \in LinkCalls : (linkPc[c] = "waiting") ~> (linkPc[c] = "request")

\* A call was granted the lock after waiting behind a call whose request
\* failed outright, and another behind one that got a 500.
C2_Witness ==
    \E c, d \in LinkCalls :
        /\ linkPc[c] = "failed"
        /\ linkPc[d] = "request" /\ linkWaited[d]
        /\ \E e \in LinkCalls : linkPc[e] \in {"content", "weberror"}

\* C3: the rootcap file is written at most once.
C3_RootcapWrittenOnce == Len(rootWrites) <= 1

\* C4: (first call) a create_rootcap call whose mkdir succeeded returns the
\* new capability with the file and the cache holding it; (second call) a
\* create_rootcap call made when the rootcap file exists raises at once,
\* sends no mkdir and leaves the file and the cached rootcap as they were.
C4_SecondCallFails ==
    [][\A c \in RootCalls :
        /\ (rootPc[c] = "content" /\ rootPc'[c] = "done") =>
              /\ rootRet'[c] = rootReq[c] /\ rootRet'[c] # NoCap
              /\ rootcapFile' = rootRet'[c]
              /\ rootcap' = rootRet'[c]
        /\ (rootPc[c] = "idle" /\ rootPc'[c] # "idle" /\ rootcapFile # NoCap) =>
              /\ rootPc'[c] = "oserror"
              /\ mkdirCount' = mkdirCount
              /\ rootWrites' = rootWrites
              /\ rootcapFile' = rootcapFile
              /\ rootcap' = rootcap]_vars

\* One call has created the rootcap and a later one was refused, the file
\* and the cache still holding the first call's capability.
C4_Witness ==
    \E c, d \in RootCalls :
        /\ rootPc[c] = "done" /\ rootPc[d] = "oserror"
        /\ rootWrites = <<rootRet[c]>>
        /\ rootcapFile = rootRet[c] /\ rootcap = rootRet[c]

\* A folder of the registry that a subclient Gateway owns: its settings hold
\* a 'nodedir' or a 'client'.
SubclientOwned(f) ==
    /\ magic_folders[f].present
    /\ magic_folders[f].nodedir \/ magic_folders[f].client # NoClient

\* C5: a start() that found a pid file issues "run" only after its stop() has
\* resolved in full: the platform path was taken, stop() was invoked on every
\* nested node directory and all of those had resolved; and such a start()
\* fails only after "run" was issued, never because of the pid file.
C5_StopBeforeRun ==
    \A x \in Frames :
        (frame[x].op = "start" /\ frame[x].hadPid) =>
            /\ frame[x].runCmd =>
                  /\ frame[x].runAfter = "full"
                  /\ frame[x].stopKids = get_nodedirs(x)
                  /\ frame[x].stopKidsOpen = {}
                  /\ IF platform = "win32"
                     THEN frame[x].sig # 0 /\ frame[x].pidRemoved
                     ELSE frame[x].stopCmd
            /\ frame[x].pc = "failed" => frame[x].runCmd

\* A start() on the parent found a pid file, waited for the "stop" commands of
\* the parent and of both subclients, and has now issued "run".
C5_Witness ==
    \E t \in Tops :
        /\ frame[Top(t)].op = "start" /\ frame[Top(t)].hadPid
        /\ frame[Top(t)].pc = "run_cmd"
        /\ frame[Top(t)].stopKids = Folders
        /\ \A f \in Folders : frame[Kid(Top(t), f)].stopCmd

\* C6: a start() that completed left a non-empty node URL and token; start()
\* assigns them only after the trigger line of "run" was matched; a failed
\* start() has assigned neither.
C6_UrlAndTokenAfterTrigger ==
    \A x \in Frames :
        frame[x].op = "start" =>
            /\ frame[x].pc = "done" =>
                  nodeurl[ObjOf(x)] # <<>> /\ api_token[ObjOf(x)] # <<>>
            /\ (frame[x].setUrl \/ frame[x].setToken) => frame[x].runOut = "trigger"
            /\ frame[x].pc = "failed" => ~frame[x].setUrl /\ ~frame[x].setToken

\* C7: when start() on the parent has completed, every subclient-owned folder
\* of the registry has a subclient whose start() completed: one this start()
\* started and waited for, or one started earlier in the session that this
\* start() did not stop.
C7_SubclientsStarted ==
    \A t \in Tops :
        (frame[Top(t)].op = "start" /\ frame[Top(t)].pc = "done") =>
            /\ frame[Top(t)].startKidsOpen = {}
            /\ \A f \in Folders : SubclientOwned(f) =>
                  \/ /\ f \in frame[Top(t)].startKids
                     /\ frame[Kid(Top(t), f)].op = "start"
                     /\ frame[Kid(Top(t), f)].pc = "done"
                  \/ /\ magic_folders[f].client = <<0, f>>
                     /\ f \notin frame[Top(t)].stopKids

\* C8: a stop() that went through a platform path has invoked stop() on every
\* nested node directory, which includes every subclient of the registry,
\* and resolves only when all of those have resolved.
C8_SubclientsStopped ==
    /\ \A x \in Frames :
          frame[x].stopRet = "full" =>
              /\ frame[x].stopKids = get_nodedirs(x)
              /\ frame[x].stopKidsOpen = {}
              /\ IsTop(x) => \A f \in Folders :
                    magic_folders[f].client # NoClient => f \in frame[x].stopKids
    /\ \A t \in Tops :
          (frame[Top(t)].op = "stop" /\ frame[Top(t)].pc = "done" /\ frame[Top(t)].hadPid) =>
              \A f \in Folders : cfg[f] =>
                  /\ frame[Kid(Top(t), f)].op = "stop"
                  /\ frame[Kid(Top(t), f)].pc = "done"

\* A stop() of the parent has resolved after the "stop" commands of both
\* subclients ended.
C8_Witness ==
    \E t \in Tops :
        /\ frame[Top(t)].op = "stop" /\ frame[Top(t)].pc = "done"
        /\ frame[Top(t)].stopKids = Folders
        /\ \A f \in Folders : frame[Kid(Top(t), f)].stopCmd

\* C9: a stop() that finds no pid file resolves without an error, having sent
\* no signal, removed no file and issued no "stop" command.
C9_StopWithoutPidfile ==
    \A x \in Frames :
        (frame[x].op = "stop" /\ ~frame[x].hadPid) =>
            /\ frame[x].pc = "done"
            /\ frame[x].stopRet = "early"
            /\ frame[x].fail = "none"
            /\ frame[x].sig = 0
            /\ ~frame[x].pidRemoved
            /\ ~frame[x].stopCmd

\* A stop() of the parent has found no pid file and has resolved.
C9_Witness ==
    \E t \in Tops :
        /\ frame[Top(t)].op = "stop" /\ frame[Top(t)].pc = "done"
        /\ ~frame[Top(t)].hadPid

\* C10: stop() never fails.  On the signal path the signal goes to the pid
\* the pid file held, "no such process" is ignored and the pid file is
\* removed; on the command path "stop" is issued and its failure is followed
\* by the subclients' stop() like a success.
C10_StopOfDeadNode ==
    \A x \in Frames :
        /\ frame[x].op = "stop" => frame[x].pc # "failed"
        /\ (frame[x].hadPid /\ frame[x].stopRet = "full") =>
              IF platform = "win32"
              THEN /\ frame[x].sig # 0
                   /\ PidStr(frame[x].sig) = frame[x].pidText
                   /\ frame[x].pidRemoved
                   /\ ~frame[x].stopCmd
              ELSE /\ frame[x].stopCmd
                   /\ frame[x].sig = 0
        /\ frame[x].killErr => frame[x].pidRemoved /\ frame[x].stopRet = "full"
        /\ frame[x].stopErr =>
              /\ frame[x].pc \notin {"stop_cmd", "failed"} \/ frame[x].op = "start"
              /\ frame[x].stopKids = get_nodedirs(x)

\* A stop() of the parent, whose daemon was dead, has resolved although its
\* "stop" command failed.
C10_Witness ==
    \E t \in Tops :
        /\ frame[Top(t)].op = "stop" /\ frame[Top(t)].pc = "done"
        /\ frame[Top(t)].stopErr /\ frame[Top(t)].stopRet = "full"

\* ----------------------------------------------------------------------
\* command(): CommandProtocol and _win32_popen
\* ----------------------------------------------------------------------
\* Some line of the text holds the trigger.
HasTriggerLine(text) ==
    \E i \in 1..Len(SplitLines(text)) : Contains(SplitLines(text)[i], Trigger)

\* C11: when a trigger is given, the call has resolved with the process id
\* as soon as a line containing the trigger has arrived from the process
\* while it is still running.
C11_ResolvesAtTriggerLine ==
    (proc.spawned /\ proc.trigger /\ proc.exit = "running" /\ HasTriggerLine(proc.stream))
        => cp.kind = "pid"

\* C12: with no trigger the streaming launcher's call is pending as long as
\* the process runs; it resolves only once the process has exited, and after
\* a clean exit its result is the whole output in the order it arrived.
C12_NoTriggerResolvesAtExit ==
    (proc.spawned /\ ~proc.trigger) =>
        /\ proc.exit = "running" => cp.kind = "pending"
        /\ cp.kind = "output" => proc.exit = "clean" /\ proc.eof /\ cp.text = proc.stream
        /\ (proc.exit = "clean" /\ proc.eof) => cp.kind = "output"
        /\ cp.output = proc.stream

\* A call without trigger has resolved with two chunks of output that end in
\* a newline.
C12_Witness ==
    /\ proc.spawned /\ ~proc.trigger /\ cp.kind = "output"
    /\ proc.chunks = 2 /\ cp.text # Strip(cp.text)

\* C13: when the process exits abnormally and no line had matched a trigger,
\* the streaming launcher's call fails with TahoeCommandError carrying the
\* output captured until then, and never resolves successfully.
C13_AbnormalExitFails ==
    (/\ proc.spawned /\ proc.exit = "abnormal"
     /\ ~(proc.trigger /\ HasTriggerLine(SubSeq(proc.stream, 1, proc.exitLen))))
        => /\ cp.kind = "error"
           /\ cp.text = Strip(SubSeq(proc.stream, 1, proc.exitLen))

\* The process printed something, a trigger was given and never matched, and
\* the process exited abnormally with its pipes closed.
C13_Witness ==
    /\ proc.spawned /\ proc.trigger /\ proc.exit = "abnormal" /\ proc.eof
    /\ proc.exitLen > 0 /\ ~HasTriggerLine(proc.stream)
    /\ cp.kind = "error"

\* Both launchers are through with the process.
RunFinished ==
    proc.spawned /\ proc.eof /\ proc.exit # "running" /\ pp.kind # "pending"

\* C14: for every output and every exit status the two launchers pass the
\* same lines to line_received and end alike: both with the pid, both with
\* the same output, or both with TahoeCommandError.
C14_LaunchersAgree ==
    RunFinished => /\ cp.hook = pp.hook
                   /\ cp.kind = pp.kind
                   /\ cp.text = pp.text

C16_AwaitReady ==
    /\ [](/\ ready.pc = "done" => ready.polls > 0 /\ ready.last.result
          /\ ready.pc \in {"sleep", "abandoned"} => ready.polls > 0 /\ ~ready.last.result
          /\ ready.called => GatewayState = ready.before
          /\ lock = FreeLock)
    /\ [][/\ (ready.pc = "sleep" /\ ready'.pc \notin {"sleep", "abandoned"})
              => (ready'.pc = "get" \/ ready'.polls = ready.polls + 1)
          /\ ready'.polls # ready.polls
              => (ready'.polls = ready.polls + 1
                  /\ ready'.pc = IF ready'.last.result THEN "done" ELSE "sleep")
          /\ ready.pc \in {"done", "abandoned"} => ready' = ready]_vars

\* The wait was abandoned after two false polls.
C16_Witness ==
    ready.pc = "abandoned" /\ ready.polls = 2

\* ----------------------------------------------------------------------
\* create_magic_folder()
\* ----------------------------------------------------------------------
\* The call has issued operation op on the parent ("P") or the subclient ("S").
Issued(on, op) ==
    \E i \in 1..Len(mf.log) : mf.log[i].on = on /\ mf.log[i].op = op

IssuedWith(on, op, arg) ==
    \E i \in 1..Len(mf.log) : mf.log[i] = Ev(on, op, arg)

\* C17: the first thing create_magic_folder issues is the native create
\* command on the parent, and once that command has ended a subclient has
\* been provisioned exactly when it was rejected as 'not recognized'.
C17_SubclientIffNotRecognized ==
    mf.pc # "idle" =>
        /\ mf.log[1] = Ev("P", "magic-folder create -n", "")
        /\ mf.native # "none" => (mf.sub <=> mf.native = "unsupported")

\* C18: a native create command that failed for a reason other than 'not
\* recognized' makes create_magic_folder fail, with no restart of the parent
\* and no link into the rootcap after it.
C18_OtherFailureSurfaced ==
    mf.native = "error" =>
        /\ mf.pc = "failed"
        /\ ~Issued("P", "stop") /\ ~Issued("P", "start") /\ ~Issued("P", "link")

\* C19: when create_magic_folder has completed, "<name> (collective)" and
\* "<name> (personal)" have both been linked into the parent's rootcap.
C19_BothCapsLinked ==
    mf.pc = "done" =>
        /\ IssuedWith("P", "link", "collective")
        /\ IssuedWith("P", "link", "personal")

\* C20: when create_magic_folder was given a join code and has completed,
\* a join command was issued and no new folder was created.
C20_JoinCodeHonoured ==
    (mf.pc = "done" /\ mf.join # "none") =>
        /\ Issued("S", "magic-folder join")
        /\ mf.native # "ok"
        /\ ~Issued("S", "magic-folder create")

\* The position in the log of the first event of operation op on `on`, or 0.
FirstIssue(on, op) ==
    LET at == {i \in 1..Len(mf.log) : mf.log[i].on = on /\ mf.log[i].op = op}
    IN  IF at = {} THEN 0 ELSE CHOOSE i \in at : \A j \in at : i <= j

\* C21: the join command issued to the subclient never carries a read-write
\* collective capability: for a read-write capability of the join code it
\* carries the read-only form, obtained by a get_json issued before the join
\* command, and a read-only capability is passed through unchanged.
C21_JoinCarriesReadOnly ==
    \A i \in 1..Len(mf.log) :
        (mf.log[i].on = "S" /\ mf.log[i].op = "magic-folder join") =>
            /\ ~IsReadWrite(mf.log[i].arg)
            /\ mf.log[i].arg = ReadOnlyOf(mf.join)
            /\ IsReadWrite(mf.join) =>
                  /\ FirstIssue("P", "get_json") > 0
                  /\ FirstIssue("P", "get_json") < i

\* C22: on the join path no command issued to the subclient carries a
\* read-write collective capability.
C22_SubclientNeverGetsAdminCap ==
    \A i \in 1..Len(mf.log) :
        mf.log[i].on = "S" => ~IsReadWrite(mf.log[i].arg)

\* ----------------------------------------------------------------------
\* Operations on a folder name
\* ----------------------------------------------------------------------
\* The position in the operation's log of the first event op on `on`, or 0.
OpAt(on, op) ==
    LET at == {i \in 1..Len(fop.log) : fop.log[i].on = on /\ fop.log[i].op = op}
    IN  IF at = {} THEN 0 ELSE CHOOSE i \in at : \A j \in at : i <= j

\* C23: an operation on a folder name that a subclient owns issues commands
\* and requests to that subclient only, none to the parent Gateway.
C23_OnlySubclientActs ==
    fop.owned => \A i \in 1..Len(fop.log) : fop.log[i].on = "S"

\* C24: invite and uninvite act on the subclient registered for the name if
\* there is one and on the parent otherwise; a completed invite returned the
\* code the command printed; a completed uninvite posted the unlink of the
\* nickname between acquiring and releasing the owning Gateway's lock.
C24_InviteUninviteRouted ==
    fop.op \in {"invite", "uninvite"} =>
        /\ \A i \in 1..Len(fop.log) : fop.log[i].on = (IF fop.owned THEN "S" ELSE "P")
        /\ (fop.op = "invite" /\ fop.pc = "done") => fop.result = <<"code">>
        /\ (fop.op = "uninvite" /\ fop.pc = "done") =>
              LET on == IF fop.owned THEN "S" ELSE "P"
              IN  /\ 0 < OpAt(on, "lock.acquire")
                  /\ OpAt(on, "lock.acquire") < OpAt(on, "POST unlink")
                  /\ OpAt(on, "POST unlink") < OpAt(on, "lock.release")

\* C25: a remove_magic_folder that has deleted the subclient's node directory
\* had that subclient's stop() resolve first, and when it has completed on a
\* subclient-owned folder the directory and the registry entry are gone; on
\* a native folder it issues the "leave -n <name>" command and nothing else,
\* and every node directory and every daemon is as it was.
C25_RemoveStopsThenDeletes ==
    fop.op = "remove" =>
        /\ fop.owned =>
              /\ fop.pc = "done" =>
                    /\ ~cfg[NewFolder]
                    /\ daemon[NewFolder] = 0
                    /\ ~magic_folders[NewFolder].present
              /\ ~cfg[NewFolder] =>
                    /\ 0 < OpAt("S", "stop")
                    /\ OpAt("S", "stop") < OpAt("S", "rmtree")
              /\ {f \in Folders : cfg[f]} \cup {NewFolder} = fop.dirs
        /\ (fop.registered /\ ~fop.owned) =>
              /\ fop.log = <<Ev("P", "magic-folder leave -n", "name")>>
              /\ {f \in Folders : cfg[f]} = fop.dirs
              /\ {n \in Nodes : daemon[n] # 0} = fop.procs
              /\ fop.pc = "done" => ~magic_folders[NewFolder].present

C25_Witness ==
    /\ fop.op = "remove" /\ fop.owned /\ fop.pc = "done"
    /\ NewFolder \in fop.procs
    /\ ~cfg[NewFolder]
    /\ fop.dirs # {NewFolder}

\* ----------------------------------------------------------------------
\* load_magic_folders()
\* ----------------------------------------------------------------------
\* The entry that load_magic_folders makes for a nested node directory.
DiskEntry(f) ==
    [present |-> TRUE, nodedir |-> NodedirOf(f), directory |-> ld.disk[f], client |-> FALSE]

\* C26: after load_magic_folders every folder of the persisted table is
\* registered with the table's settings (also when a nested node directory
\* of that name exists), every nested node directory whose name was not
\* registered has an entry with its nodedir and its configured directory,
\* every other name is as it was, and a second load leaves the registry as
\* the first one did.
C26_LoadMerges ==
    ld.loads >= 1 =>
        /\ \A f \in Folders :
              CASE ld.table[f].present -> ld.reg[f] = ld.table[f]
                [] ld.disk[f] # "none" /\ ~ld.before[f].present -> ld.reg[f] = DiskEntry(f)
                [] OTHER -> ld.reg[f] = ld.before[f]
        /\ ld.reg = ld.first

C26_Witness ==
    /\ ld.loads = 2
    /\ ld.table["f1"].present /\ ld.disk["f1"] # "none"
    /\ ld.table["f1"].directory # ld.disk["f1"]
    /\ ~ld.table["f2"].present /\ ld.disk["f2"] # "none" /\ ~ld.before["f2"].present
    /\ ld.reg["f2"] = DiskEntry("f2")

\* ----------------------------------------------------------------------
\* The web API
\* ----------------------------------------------------------------------
LastAnswer == IF gj.answers = <<>> THEN "none" ELSE gj.answers[Len(gj.answers)]

\* C27: get_json called without a node URL or without a capability sends no
\* request and returns nothing; get_json whose request meets a connection
\* failure returns nothing; in none of these cases does it raise.
C27_GetJsonNoResult ==
    gj.op = "get_json" =>
        /\ (~gj.url \/ ~gj.cap) =>
              gj.pc = "done" /\ gj.result = "None" /\ gj.requests = 0
        /\ LastAnswer = "ConnectError" =>
              gj.pc = "done" /\ gj.result = "None" /\ gj.why = "none"

C27_Witness ==
    gj.op = "get_json" /\ gj.answers = <<"ConnectError">> /\ gj.pc = "done"

\* C28: no status or telemetry query ends with an exception, whatever the
\* daemon answers and whenever it becomes unreachable.
C28_QueriesNeverRaise ==
    gj.op \in GuardedOps \cup JsonOps => gj.pc # "failed"

\* C29: a capability operation that the daemon answered with a status other
\* than 200 has failed with TahoeWebError.
C29_NonSuccessRaisesWebError ==
    (gj.op \in RaisingOps \cup {"get_json"} /\ LastAnswer \in {"404", "500"}) =>
        gj.pc = "failed" /\ gj.why = "TahoeWebError"

\* ----------------------------------------------------------------------
\* The alias table
\* ----------------------------------------------------------------------
AliasLines == ReadLines(al.file, TRUE)

\* A line that is no comment and holds a ':'.
WellFormed(line) == ~IsComment(line) /\ FirstColon(line) # 0

AliasNameOf(line) == SubSeq(line, 1, FirstColon(line))

AliasCapOf(line) == Strip(SubSeq(line, FirstColon(line) + 1, Len(line)))

\* The entries of the well-formed lines, the last line of a name giving its
\* capability.
WellFormedEntries ==
    {<<AliasNameOf(AliasLines[i]), AliasCapOf(AliasLines[i])>> :
        i \in {k \in 1..Len(AliasLines) :
                 /\ WellFormed(AliasLines[k])
                 /\ \A j \in (k + 1)..Len(AliasLines) :
                       WellFormed(AliasLines[j]) =>
                           AliasNameOf(AliasLines[j]) # AliasNameOf(AliasLines[k])}}

\* C30: get_aliases returns exactly the entries of the well-formed lines of
\* the file, whatever comment lines and lines without ':' stand between
\* them; get_alias returns the capability of the name it is given, with or
\* without the trailing colon, and nothing for a name without an entry.
C30_AliasesOfWellFormedLines ==
    /\ (al.pc = "listed" /\ al.exists) => ~al.isNone /\ al.table = WellFormedEntries
    /\ al.pc = "asked" =>
          LET key == IF al.query # <<>> /\ al.query[Len(al.query)] = ":"
                     THEN al.query ELSE al.query \o <<":">>
          IN  /\ al.found <=> (al.exists /\ \E e \in WellFormedEntries : e[1] = key)
              /\ al.found => <<key, al.answer>> \in WellFormedEntries

C30_Witness ==
    /\ al.pc = "listed"
    /\ \E i, j, k \in 1..Len(AliasLines) :
          /\ IsComment(AliasLines[i])
          /\ j < k
          /\ ~IsComment(AliasLines[j]) /\ FirstColon(AliasLines[j]) = 0
          /\ WellFormed(AliasLines[k])
    /\ Cardinality(al.table) = 1

\* ----------------------------------------------------------------------
\* The subclient path of create_magic_folder
\* ----------------------------------------------------------------------
\* C32: create_client on a node directory that exists fails with
\* NodedirExistsError, no create-client command is issued and the directory
\* is still there.
C32_ExistingNodedirRefused ==
    (mf.sub /\ mf.hadDir) =>
        /\ mf.pc = "failed" /\ mf.why = "NodedirExistsError"
        /\ ~Issued("S", "create-client")
        /\ cfg[NewFolder]

C32_Witness ==
    mf.sub /\ mf.hadDir /\ mf.why = "NodedirExistsError"

\* The operations of the subclient path in the order the code waits for them,
\* the diminishing of an admin join code left out.
SubclientSteps(join) ==
    <<Ev("S", "create-client", ""), Ev("S", "start", ""), Ev("S", "await_ready", "")>>
    \o (IF join = "none" THEN <<Ev("S", "magic-folder create", "")>>
        ELSE <<Ev("S", "magic-folder join", IF IsAdmin(join) THEN ReadOnlyOf(join) ELSE join)>>)
    \o <<Ev("S", "stop", ""), Ev("S", "start", "")>>
    \o <<Ev("P", "link", "collective"), Ev("P", "link", "personal")>>

\* The log of the subclient path without the native command that came first
\* and without add-alias and get_json.
RECURSIVE StepsOf(_)
StepsOf(log) ==
    IF log = <<>> THEN <<>>
    ELSE IF Head(log).op \in {"add-alias magic:", "get_json", "magic-folder create -n"}
    THEN StepsOf(Tail(log))
    ELSE <<Head(log)>> \o StepsOf(Tail(log))

\* C33: on the subclient path each operation is issued only when the one
\* before it has completed, in the order create-client, start, await_ready,
\* the create or join command, stop, start, link of the collective, link of
\* the personal capability.
C33_SubclientStepsInOrder ==
    mf.sub =>
        LET steps == StepsOf(mf.log)
        IN  /\ Len(steps) <= Len(SubclientSteps(mf.join))
            /\ steps = SubSeq(SubclientSteps(mf.join), 1, Len(steps))
            /\ mf.pc \in {"s_client", "s_start", "s_ready", "s_join", "s_create", "s_stop",
                          "s_restart", "p_link1", "p_link2"} => steps # <<>>

C33_Witness ==
    mf.sub /\ mf.pc = "done" /\ Len(StepsOf(mf.log)) = 8

\* C35: the join command and the stop after it are issued to the subclient
\* only when the add-alias command has ended, and a failed add-alias makes
\* the call fail.
C35_AddAliasEndsBeforeJoin ==
    /\ (Issued("S", "magic-folder join") /\ mf.pc \in {"s_join", "s_stop"}) =>
          mf.alias # "running"
    /\ (mf.alias = "failed" /\ mf.pc \in {"done", "failed"}) => mf.pc = "failed"

\* C37: when the subclient path has failed the registry is as it was when
\* create_magic_folder was called.
C37_FailedProvisioningKeepsRegistry ==
    (mf.sub /\ mf.pc = "failed") => magic_folders = mf.before

\* ----------------------------------------------------------------------
\* Delivery of a command's result
\* ----------------------------------------------------------------------
\* C34: once the streaming launcher has delivered the result of a call, as
\* the pid, the output or an error, no later event of the process changes
\* it, and when the process has exited and its pipes are closed the result
\* has been delivered.
C34_DeliveredExactlyOnce ==
    /\ []((proc.spawned /\ proc.eof /\ proc.exit # "running") => cp.kind # "pending")
    /\ [][cp.kind # "pending" => (cp'.kind = cp.kind /\ cp'.text = cp.text)]_vars

\* The call resolved with the pid at the trigger line, and the process has
\* since written more, exited abnormally and ended.
C34_Witness ==
    /\ proc.spawned /\ proc.eof /\ proc.exit = "abnormal"
    /\ cp.kind = "pid" /\ proc.chunks = 2

\* ----------------------------------------------------------------------
\* Failures of remove_magic_folder, stop() without a pid file
\* ----------------------------------------------------------------------
\* C36: while remove_magic_folder on a subclient-owned folder has not
\* stopped the subclient and deleted its node directory, and when it has
\* failed, the registry still holds the folder's entry with its subclient.
C36_RemoveAllOrNothing ==
    (fop.op = "remove" /\ fop.owned /\ (fop.pc = "failed" \/ cfg[NewFolder])) =>
        /\ magic_folders[NewFolder].present
        /\ magic_folders[NewFolder].client # NoClient

\* C40: when a stop() called on the parent Gateway has resolved, no daemon
\* of a subclient runs.
C40_NoSubclientRunsAfterStop ==
    \A t \in Tops :
        (frame[Top(t)].op = "stop" /\ frame[Top(t)].pc = "done") =>
            \A f \in Folders : daemon[f] = 0

\* The servers of a status whose connection status begins with "Connected".
ConnectedServers(servers) ==
    {i \in 1..Len(servers) : servers[i].connection_status[1] = "Connected"}

\* The available space of the servers at the indices I, unknown space as zero.
RECURSIVE SpaceOfServers(_, _)
SpaceOfServers(servers, I) ==
    IF I = {} THEN 0
    ELSE LET i == CHOOSE j \in I : TRUE
         IN  (IF servers[i].available_space = NoneVal THEN 0
              ELSE servers[i].available_space) + SpaceOfServers(servers, I \ {i})

\* C31: get_grid_status tries JSON parsing first and uses the welcome-page
\* extraction only when JSON parsing of the answer fails; on JSON with a
\* server list it returns (number of servers whose connection status begins
\* with "Connected", number of servers listed, sum of the available space of
\* the connected servers), a connected server of unknown space adding zero.
C31_GridStatusTwoTier ==
    /\ gs.tried # <<>> => gs.tried[1] = "json"
    /\ (\E i \in 1..Len(gs.tried) : gs.tried[i] = "page") => ~gs.content.json
    /\ gs.pc = "done" => (gs.parser = "page" <=> ~gs.content.json)
    /\ (gs.pc = "done" /\ gs.content.json /\ gs.content.keyed) =>
           gs.result = <<Cardinality(ConnectedServers(gs.content.servers)),
                         Len(gs.content.servers),
                         SpaceOfServers(gs.content.servers,
                                        ConnectedServers(gs.content.servers))>>

\* C31 witness: a status of three servers was parsed as JSON: two are
\* connected, one of them of unknown space, and the third, not connected,
\* announces space that is not counted.
C31_Witness ==
    /\ gs.pc = "done" /\ gs.parser = "json" /\ gs.content.keyed
    /\ Len(gs.content.servers) = 3
    /\ gs.result = <<2, 3, MaxSpace>>
    /\ \E i \in ConnectedServers(gs.content.servers) :
           gs.content.servers[i].available_space = NoneVal
    /\ \E i \in 1..3 : /\ i \notin ConnectedServers(gs.content.servers)
                       /\ gs.content.servers[i].available_space > 0

\* C38: the accessors get_magic_folder_client, get_collective_dircap,
\* get_magic_folder_dircap, get_magic_folder_directory and
\* get_magic_folder_members never add a folder name to the registry: the
\* names it holds are those registered before the accessors were called.
C38_AccessorsKeepNames ==
    {n \in RegistryNames : acc.reg[n].present} = acc.names

\* C39: for any interleaving of overlapping start() and stop() calls on one
\* Gateway, at most one "run" command for its node directory is in flight.
C39_OneRunInFlight ==
    Cardinality({c \in OverlapCalls : ov.call[c].pc = "run_cmd"}) <= 1

====
